---- MODULE Spec2Model ----
(***************************************************************************)
(* A model of idog, an encoder for the kitty terminal graphics protocol    *)
(* (KGP): the frame encoder (src/idog/encoder.py) and the capability query *)
(* engine (src/idog/query.py) with the helpers they call.                  *)
(*                                                                         *)
(* Text is modelled as a sequence of one-character strings; the control    *)
(* byte ESC (\033) is the token "ESC" and a byte >= 0x80 the token "x80".  *)
(***************************************************************************)
EXTENDS Integers, Sequences, FiniteSets, TLC

VARIABLES
    \* ---- frame encoder (encoder.py) ----
    epc,            \* position of the caller of the encoder
    enc,            \* the KGPEncoderBase object: its fields and its medium
    chunk_size,     \* argument of the running construct_KGP / _format_KGP call
    payload,        \* payload argument of _format_KGP
    options_str,    \* options_str argument of _format_KGP
    sequences,      \* the list of frames the call returned
    eraised,        \* exception that left the call, "none" otherwise
    \* ---- capability query engine (query.py) ----
    qpc,            \* position inside query_transmission_medium_support / _do_query
    qentry,         \* which operation the caller invoked: "qtms", "do_query", "query_all"
    qargs,          \* arguments of the running operation
    kgp_medium,     \* the probe's mock medium, NoMedium when None
    fd,             \* terminal handle returned by atty_fd
    old_settings,   \* saved local-mode flags, NoSettings before they are saved
    response,       \* decoded response buffer
    success,        \* the loop's success flag
    qresult,        \* value returned to the caller, "none" before the return
    qraised,        \* exception travelling up or escaped, "none" otherwise
    report,         \* query_all: results collected so far
    \* ---- environment ----
    stdout,         \* everything written to standard output, in order
    tty,            \* the terminal: isatty per descriptor, local-mode flags, reply script
    segments,       \* the shared-memory segments that exist: name, size, content
    files,          \* the temp files that exist: path, content
    hist,           \* history of the running operation (for the properties only)
    \* ---- medium lifecycle, step by step (medium.py) ----
    media,          \* the medium objects under construction or constructed, per caller
    racer,          \* steps another process has taken on the same names so far
    inos,           \* the next identity the system gives to a new segment
    \* ---- one image transfer (encoder.py, __main__.py) ----
    tpc,            \* position of the transfer: construction, frames, output, end
    kgp_options,    \* the KGPOptions the transfer runs with and who runs it
    tlog,           \* history of the transfer (for the properties only)
    \* ---- options and Unicode placeholders (cli_options.py, unicode.py) ----
    upc,            \* position of main: option handling, encoder, placeholder lines
    cli_args,       \* the parsed command line, the image and the terminal it runs in
    uoptions,       \* the KGPOptions object being validated
    uenc,           \* the KGPEncoderUnicode / KGPEncoderBase object main constructed
    placeholders,   \* the lines construct_unicode_placeholders returned
    uraised         \* exception that left main, "none" otherwise

evars == <<epc, enc, chunk_size, payload, options_str, sequences, eraised>>
qvars == <<qpc, qentry, qargs, kgp_medium, fd, old_settings, response, success,
           qresult, qraised, report>>
envvars == <<stdout, tty, segments, files, hist>>
mvars == <<media, racer, inos>>
tvars == <<tpc, kgp_options, tlog>>
uvars == <<upc, cli_args, uoptions, uenc, placeholders, uraised>>
vars == <<evars, qvars, envvars, mvars, tvars, uvars>>

-----------------------------------------------------------------------------
(* Bounds of the model *)

MaxPayloadLen == 5      \* longest generated payload
MaxChunk == 4           \* largest generated chunk size
MaxDim == 2             \* largest display dimension, in cells

-----------------------------------------------------------------------------
(* Text helpers *)

ESC == "ESC"
Digits == <<"0", "1", "2", "3", "4", "5", "6", "7", "8", "9">>
DigitSet == {Digits[i] : i \in 1..10}

Min(a, b) == IF a <= b THEN a ELSE b

\* Python's payload[a:b] for 0 <= a, clamped at the end of the string
Slice(s, a, b) == SubSeq(s, a + 1, Min(b, Len(s)))

\* str(n) for a natural n: its decimal digits
RECURSIVE Dec(_)
Dec(n) == IF n < 10 THEN <<Digits[n + 1]>> ELSE Dec(n \div 10) \o <<Digits[(n % 10) + 1]>>

RECURSIVE Concat(_)
Concat(ss) == IF ss = <<>> THEN <<>> ELSE Head(ss) \o Concat(Tail(ss))

\* all sequences over A of length at most n
RECURSIVE SeqsUpTo(_, _)
SeqsUpTo(A, n) ==
    IF n = 0 THEN {<<>>}
    ELSE LET shorter == SeqsUpTo(A, n - 1)
         IN  shorter \cup {Append(s, a) : s \in {t \in shorter : Len(t) = n - 1}, a \in A}

\* index of the first occurrence of c in s, 0 when there is none
FirstIndex(s, c) ==
    IF \E i \in 1..Len(s) : s[i] = c
    THEN CHOOSE i \in 1..Len(s) : s[i] = c /\ \A j \in 1..(i - 1) : s[j] # c
    ELSE 0

-----------------------------------------------------------------------------
(* The APC envelope, encoder.py 80-88 *)

APC_open == <<ESC, "_", "G">>
APC_close == <<ESC, "\\">>

-----------------------------------------------------------------------------
(* utils.py: base64_encode.  Bytes are naturals below 256. *)

B64Alphabet ==
    <<"A", "B", "C", "D", "E", "F", "G", "H", "I", "J", "K", "L", "M", "N", "O", "P",
      "Q", "R", "S", "T", "U", "V", "W", "X", "Y", "Z", "a", "b", "c", "d", "e", "f",
      "g", "h", "i", "j", "k", "l", "m", "n", "o", "p", "q", "r", "s", "t", "u", "v",
      "w", "x", "y", "z", "0", "1", "2", "3", "4", "5", "6", "7", "8", "9", "+", "/">>

\* str.encode("utf-8") of the characters that occur in segment names and temp paths
Ord(c) ==
    CASE c \in DigitSet -> 47 + FirstIndex(Digits, c)
      [] c = "/" -> 47
      [] c = "_" -> 95
      [] c = "a" -> 97
      [] c = "b" -> 98
      [] c = "d" -> 100
      [] c = "g" -> 103
      [] c = "i" -> 105
      [] c = "m" -> 109
      [] c = "o" -> 111
      [] c = "p" -> 112
      [] c = "t" -> 116

encode_utf8(s) == [i \in 1..Len(s) |-> Ord(s[i])]

B64Char(n) == B64Alphabet[(n % 64) + 1]

RECURSIVE base64_encode(_)
base64_encode(bytes) ==
    IF Len(bytes) = 0 THEN <<>>
    ELSE IF Len(bytes) = 1 THEN
        LET n == bytes[1] * 65536
        IN  <<B64Char(n \div 262144), B64Char(n \div 4096), "=", "=">>
    ELSE IF Len(bytes) = 2 THEN
        LET n == bytes[1] * 65536 + bytes[2] * 256
        IN  <<B64Char(n \div 262144), B64Char(n \div 4096), B64Char(n \div 64), "=">>
    ELSE
        LET n == bytes[1] * 65536 + bytes[2] * 256 + bytes[3]
        IN  <<B64Char(n \div 262144), B64Char(n \div 4096), B64Char(n \div 64), B64Char(n)>>
            \o base64_encode(SubSeq(bytes, 4, Len(bytes)))

-----------------------------------------------------------------------------
(* medium.py: the medium variants as far as the encoder and the probe use them *)

NoMedium == [kind |-> "None"]

\* KGPMediumSharedMemory._construct_memory_name: f"idog_{self.image_id}"
construct_memory_name(image_id) == <<"i", "d", "o", "g", "_">> \o Dec(image_id)

\* KGPMediumTempFile._construct_file_path: mkstemp(prefix="idog_"); the unique
\* suffix mkstemp picks is the parameter
construct_file_path(suffix) ==
    <<"/", "t", "m", "p", "/", "i", "d", "o", "g", "_">> \o suffix

\* the methods the medium classes define (medium.py 20-34, 55-65, 115-130, 145-158)
KGPMediumMethods == {"cleanup", "construct_payload", "medium_identifier", "do_compression"}

construct_payload(m) ==
    CASE m.kind = "d" -> m.payload
      [] m.kind = "s" -> base64_encode(encode_utf8(m.shm_name))
      [] m.kind = "t" -> base64_encode(encode_utf8(m.file_path))

medium_identifier(m) == <<m.kind>>

\* do_compression answering True for every medium
do_compression_always(m) == TRUE

do_compression(m) == m.kind = "d"

-----------------------------------------------------------------------------
(* encoder.py: the frame encoder *)

\* range(start, stop, step) for step > 0, as the sequence of its values
Range(start, stop, step) ==
    LET n == IF stop > start THEN (stop - start + step - 1) \div step ELSE 0
    IN  [k \in 1..n |-> start + (k - 1) * step]

\* _format_KGP with the slice of a following chunk one short: payload[offset:offset + chunk_size - 1]
_format_KGP_short_slice(p, opts, c) ==
    IF Len(p) <= c
    THEN <<APC_open \o opts \o <<";">> \o p \o APC_close>>
    ELSE LET first == APC_open \o opts \o <<",", "m", "=", "1", ";">>
                        \o Slice(p, 0, c) \o APC_close
             offsets == Range(c, Len(p), c)
             frame(offset) ==
                 LET chunk == Slice(p, offset, offset + c - 1)
                     m == IF offset + c < Len(p) THEN 1 ELSE 0
                 IN  APC_open \o <<"m", "=">> \o Dec(m) \o <<";">> \o chunk \o APC_close
         IN  <<first>> \o [k \in 1..Len(offsets) |-> frame(offsets[k])]

\* _format_KGP with the continuation test off by one: offset + chunk_size <= len(payload)
_format_KGP_m_off_by_one(p, opts, c) ==
    IF Len(p) <= c
    THEN <<APC_open \o opts \o <<";">> \o p \o APC_close>>
    ELSE LET first == APC_open \o opts \o <<",", "m", "=", "1", ";">>
                        \o Slice(p, 0, c) \o APC_close
             offsets == Range(c, Len(p), c)
             frame(offset) ==
                 LET chunk == Slice(p, offset, offset + c)
                     m == IF offset + c <= Len(p) THEN 1 ELSE 0
                 IN  APC_open \o <<"m", "=">> \o Dec(m) \o <<";">> \o chunk \o APC_close
         IN  <<first>> \o [k \in 1..Len(offsets) |-> frame(offsets[k])]

\* _format_KGP with the slice of a following chunk one long: payload[offset:offset + chunk_size + 1]
_format_KGP_long_slice(p, opts, c) ==
    IF Len(p) <= c
    THEN <<APC_open \o opts \o <<";">> \o p \o APC_close>>
    ELSE LET first == APC_open \o opts \o <<",", "m", "=", "1", ";">>
                        \o Slice(p, 0, c) \o APC_close
             offsets == Range(c, Len(p), c)
             frame(offset) ==
                 LET chunk == Slice(p, offset, offset + c + 1)
                     m == IF offset + c < Len(p) THEN 1 ELSE 0
                 IN  APC_open \o <<"m", "=">> \o Dec(m) \o <<";">> \o chunk \o APC_close
         IN  <<first>> \o [k \in 1..Len(offsets) |-> frame(offsets[k])]

\* _format_KGP repeating the options in every frame
_format_KGP_repeat_options(p, opts, c) ==
    IF Len(p) <= c
    THEN <<APC_open \o opts \o <<";">> \o p \o APC_close>>
    ELSE LET first == APC_open \o opts \o <<",", "m", "=", "1", ";">>
                        \o Slice(p, 0, c) \o APC_close
             offsets == Range(c, Len(p), c)
             frame(offset) ==
                 LET chunk == Slice(p, offset, offset + c)
                     m == IF offset + c < Len(p) THEN 1 ELSE 0
                 IN  APC_open \o opts \o <<",", "m", "=">> \o Dec(m) \o <<";">> \o chunk
                     \o APC_close
         IN  <<first>> \o [k \in 1..Len(offsets) |-> frame(offsets[k])]

\* KGPEncoderBase._format_KGP, encoder.py 77-89
_format_KGP(p, opts, c) ==
    IF Len(p) <= c
    THEN <<APC_open \o opts \o <<";">> \o p \o APC_close>>
    ELSE LET first == APC_open \o opts \o <<",", "m", "=", "1", ";">>
                        \o Slice(p, 0, c) \o APC_close
             offsets == Range(c, Len(p), c)
             frame(offset) ==
                 LET chunk == Slice(p, offset, offset + c)
                     m == IF offset + c < Len(p) THEN 1 ELSE 0
                 IN  APC_open \o <<"m", "=">> \o Dec(m) \o <<";">> \o chunk \o APC_close
         IN  <<first>> \o [k \in 1..Len(offsets) |-> frame(offsets[k])]

\* KGPEncoderBase._gen_options, encoder.py 91-111.  _init_image (encoder.py 34)
\* converts every image to "RGB" first, so image.mode is never "RGBA" here.
_gen_options(e) ==
    LET format == IF e.transfer_png THEN <<"1", "0", "0">>
                  ELSE IF e.mode = "RGBA" THEN <<"3", "2">> ELSE <<"2", "4">>
        options == <<"i", "=">> \o Dec(e.image_id) \o <<",", "a", "=", "T", ",", "f", "=">>
                   \o format \o <<",", "t", "=">> \o medium_identifier(e.medium_mgr)
                   \o <<",", "q", "=", "2", ",", "c", "=">> \o Dec(e.display_cols)
                   \o <<",", "r", "=">> \o Dec(e.display_rows)
                   \o <<",", "s", "=">> \o Dec(e.width)
                   \o <<",", "v", "=">> \o Dec(e.height)
    IN  IF do_compression(e.medium_mgr) THEN options \o <<",", "o", "=", "z">> ELSE options

DefaultChunkSize == 4096

\* construct_KGP falling back to the default chunk size instead of raising
construct_KGP_default_on_bad_size(e, c) ==
    [raised |-> "none",
     ret |-> _format_KGP(construct_payload(e.medium_mgr), _gen_options(e),
                         IF c <= 0 THEN DefaultChunkSize ELSE c)]

\* KGPEncoderBase.construct_KGP, encoder.py 113-121: the exception it raises
\* ("none" when it returns) and the list it returns
construct_KGP(e, c) ==
    IF c <= 0
    THEN [raised |-> "ValueError", ret |-> <<>>]
    ELSE [raised |-> "none",
          ret |-> _format_KGP(construct_payload(e.medium_mgr), _gen_options(e), c)]

-----------------------------------------------------------------------------
(* Reading a frame back, as a terminal does: the envelope, the control data *)
(* before the first ";" and the payload after it                            *)

HasEnvelope(f) ==
    /\ Len(f) >= Len(APC_open) + Len(APC_close)
    /\ SubSeq(f, 1, Len(APC_open)) = APC_open
    /\ SubSeq(f, Len(f) - Len(APC_close) + 1, Len(f)) = APC_close

FrameBody(f) == SubSeq(f, Len(APC_open) + 1, Len(f) - Len(APC_close))

FrameControl(f) ==
    LET b == FrameBody(f) IN SubSeq(b, 1, FirstIndex(b, ";") - 1)

FramePayload(f) ==
    LET b == FrameBody(f) IN SubSeq(b, FirstIndex(b, ";") + 1, Len(b))

\* the comma-separated items of a control string
RECURSIVE SplitComma(_)
SplitComma(s) ==
    LET i == FirstIndex(s, ",")
    IN  IF i = 0 THEN <<s>>
        ELSE <<SubSeq(s, 1, i - 1)>> \o SplitComma(SubSeq(s, i + 1, Len(s)))

ControlItems(f) == LET it == SplitComma(FrameControl(f)) IN {it[i] : i \in 1..Len(it)}

\* the value of the m key of a frame; the protocol's default, 0, when the key is absent
FrameM(f) == IF <<"m", "=", "1">> \in ControlItems(f) THEN 1 ELSE 0

-----------------------------------------------------------------------------
(* The inputs of the frame encoder *)

PayloadAlphabet == {"A", "B"}
ExamplePayload == <<"A", "B", "C", "D", "E", "F", "G", "H", "I", "J">>
Payloads == SeqsUpTo(PayloadAlphabet, MaxPayloadLen) \cup {ExamplePayload}
ChunkSizes == 1..MaxChunk
ImageIds == {5, 1715004}
TempSuffixes == {<<"a">>, <<"b">>}

\* the media an encoder can hold after _init_medium
Media ==
    {[kind |-> "d", image_id |-> i, payload |-> p] :
        i \in ImageIds, p \in {q \in Payloads : Len(q) > 0}}
    \cup {[kind |-> "s", image_id |-> i, shm_name |-> construct_memory_name(i)] :
        i \in ImageIds}
    \cup {[kind |-> "t", image_id |-> i, file_path |-> construct_file_path(x)] :
        i \in ImageIds, x \in TempSuffixes}

CellWidth == 8
CellHeight == 16

\* the encoder objects KGPEncoderBase.__init__ (encoder.py 25-30) leaves behind
Encoders ==
    {[image_id |-> m.image_id, transfer_png |-> png, mode |-> "RGB",
      display_cols |-> c, display_rows |-> r,
      width |-> c * CellWidth, height |-> r * CellHeight, medium_mgr |-> m] :
        m \in Media, png \in BOOLEAN, c \in 1..MaxDim, r \in 1..MaxDim}

NoEncoder == [image_id |-> 0, mode |-> "none"]

SampleEncoders == {e \in Encoders : e.display_cols = 1 /\ e.display_rows = MaxDim
                                    /\ e.medium_mgr.kind = "s" /\ ~e.transfer_png}
OptionStrings == {_gen_options(e) : e \in SampleEncoders}

-----------------------------------------------------------------------------
(* Actions of the frame encoder *)

\* a direct call of _format_KGP(payload, options_str, chunk_size) with chunk_size > 0
Call_format_KGP ==
    /\ epc = "idle"
    /\ \E p \in Payloads, o \in OptionStrings, c \in ChunkSizes :
        /\ payload' = p
        /\ options_str' = o
        /\ chunk_size' = c
        /\ sequences' = _format_KGP(p, o, c)
    /\ epc' = "formatted"
    /\ UNCHANGED <<enc, eraised, qvars, envvars, mvars, tvars, uvars>>

\* encoder = KGPEncoderBase(options), __main__.py 24/28
NewEncoder ==
    /\ epc = "idle"
    /\ \E e \in Encoders : enc' = e
    /\ epc' = "constructed"
    /\ UNCHANGED <<chunk_size, payload, options_str, sequences, eraised, qvars, envvars, mvars, tvars, uvars>>

\* sequences = encoder.construct_KGP(chunk_size), __main__.py 25/29
Call_construct_KGP ==
    /\ epc = "constructed"
    /\ \E c \in (-1..MaxChunk) \cup {DefaultChunkSize} :
        LET r == construct_KGP(enc, c)
        IN  /\ chunk_size' = c
            /\ eraised' = r.raised
            /\ sequences' = r.ret
            /\ payload' = IF r.raised = "none" THEN construct_payload(enc.medium_mgr) ELSE <<>>
            /\ options_str' = IF r.raised = "none" THEN _gen_options(enc) ELSE <<>>
            /\ epc' = IF r.raised = "none" THEN "returned" ELSE "raised"
    /\ UNCHANGED <<enc, qvars, envvars, mvars, tvars, uvars>>

\* for seq in sequences: print(seq, end=""), __main__.py 31-32
PrintSequences ==
    /\ epc = "returned"
    /\ stdout' = stdout \o sequences
    /\ epc' = "printed"
    /\ UNCHANGED <<enc, chunk_size, payload, options_str, sequences, eraised,
                   qvars, tty, segments, files, hist, mvars, tvars, uvars>>

-----------------------------------------------------------------------------
(* query.py: patterns and their search *)

\* A compiled pattern of the shape  prefix class* suffix ; a literal has an
\* empty class and an empty suffix.  Search is re.Pattern.search on a string.
Search(pat, s) ==
    \E i \in 1..(Len(s) + 1), n \in 0..Len(s) :
        LET pl == Len(pat.prefix)
            sl == Len(pat.suffix)
        IN  /\ i + pl + n + sl - 1 <= Len(s)
            /\ SubSeq(s, i, i + pl - 1) = pat.prefix
            /\ \A k \in 1..n : s[i + pl + k - 1] \in pat.class
            /\ SubSeq(s, i + pl + n, i + pl + n + sl - 1) = pat.suffix

Literal(text) == [prefix |-> text, class |-> {}, suffix |-> <<>>]

\* re.compile(rf"\033_Gi={kgp_medium.image_id};OK\033\\"), query.py 98
expected_response(image_id) ==
    Literal(APC_open \o <<"i", "=">> \o Dec(image_id) \o <<";", "O", "K">> \o APC_close)

\* fence_code = "\033[c", query.py 99
fence_code == <<ESC, "[", "c">>

\* re.compile(r"\033\[\?[0-9;]*c"), query.py 100
fence_response ==
    [prefix |-> <<ESC, "[", "?">>, class |-> DigitSet \cup {";"}, suffix |-> <<"c">>]

\* char.decode('ascii', errors='ignore'), query.py 49: a byte >= 0x80 decodes to ""
decode_ascii(char) == IF char = "x80" THEN <<>> ELSE <<char>>

\* after_byte with the flag assigned from a comparison of the whole buffer: success = (response == expected)
after_byte_exact_match(resp, succ, char, expected, fence) ==
    LET r == resp \o decode_ascii(char)
    IN  [response |-> r,
         success |-> r = expected.prefix,
         stop |-> Search(fence, r)]

\* after_byte without the break on the fence: the loop goes on reading
after_byte_no_break(resp, succ, char, expected, fence) ==
    LET r == resp \o decode_ascii(char)
    IN  [response |-> r,
         success |-> succ \/ Search(expected, r),
         stop |-> FALSE]

\* query.py 49-55: one received byte.  The new buffer, the new success flag and
\* whether the loop breaks.
after_byte(resp, succ, char, expected, fence) ==
    LET r == resp \o decode_ascii(char)
    IN  [response |-> r,
         success |-> succ \/ Search(expected, r),
         stop |-> Search(fence, r)]

\* atty_fd falling back to stdin instead of raising
atty_fd_default_stdin(isatty) ==
    IF isatty[0] THEN 0 ELSE IF isatty[1] THEN 1 ELSE IF isatty[2] THEN 2 ELSE 0

\* utils.py 42-47: the first of stdin, stdout, stderr that is a terminal; -1
\* stands for raising NoInteractiveTerminalError
atty_fd(isatty) ==
    IF isatty[0] THEN 0 ELSE IF isatty[1] THEN 1 ELSE IF isatty[2] THEN 2 ELSE -1

\* query.py 30-32: new_settings[3] & ~termios.ICANON & ~termios.ECHO
raw_settings(lflag) == lflag \ {"ICANON", "ECHO"}

\* no restore in the finally block
finally_settings_not_restored(saved, current) == current

\* query.py 62-63: the settings the finally block writes back
finally_settings(saved, current) == saved

NoSettings == {"unsaved"}

\* query.py 67-76: _mock_data for one pixel; "ValueError" for an unsupported
\* format.  Of the PNG file (utils.py 22-35) only the first four bytes of its
\* signature are kept.
_mock_data(format) ==
    CASE format = "32" -> <<0, 0, 0, 0>>
      [] format = "24" -> <<0, 0, 0>>
      [] format = "100" -> <<137, 80, 78, 71>>
      [] OTHER -> "ValueError"

-----------------------------------------------------------------------------
(* medium.py: creation and cleanup of a medium, run without interference *)

SegmentNamed(segs, name) == {g \in segs : g.name = name}

\* a write that leaves the buffer holding the data alone: buf[:] = data
Overwrite_whole_buffer(old, data) == data

\* data over the first Len(data) bytes of old, the rest of old kept: buf[:data_len] = data
Overwrite(old, data) == data \o SubSeq(old, Len(data) + 1, Len(old))

\* KGPMediumSharedMemory.__init__, medium.py 75-113, when no other process
\* touches the name in between: the segments afterwards
shm_init_segments(segs, name, data) ==
    LET existing == SegmentNamed(segs, name)
        fresh == [name |-> name, size |-> Len(data), content |-> data]
    IN  IF existing = {} THEN segs \cup {fresh}
        ELSE LET g == CHOOSE x \in existing : TRUE
             IN  IF g.size < Len(data)
                 THEN (segs \ {g}) \cup {fresh}
                 ELSE (segs \ {g}) \cup {[g EXCEPT !.content = Overwrite(g.content, data)]}

\* a cleanup that closes the mapping and leaves the name linked
cleanup_segments_nothing(m, segs) == segs

\* KGPMediumSharedMemory.cleanup, medium.py 115-121: close, unlink, errors swallowed
\* KGPMediumTempFile.cleanup, medium.py 145-149: os.remove, errors swallowed
\* KGPMediumDirect.cleanup, medium.py 55-56: nothing
cleanup_segments(m, segs) ==
    IF m.kind = "s" THEN segs \ SegmentNamed(segs, m.shm_name) ELSE segs

cleanup_files(m, fs) ==
    IF m.kind = "t" THEN {f \in fs : f.path # m.file_path} ELSE fs

-----------------------------------------------------------------------------
(* The terminal and the inputs of the query engine *)

ProbeIds == {5, 16777215}
DirectPayloads == {<<"A", "A", "B", "B">>}
MediumArgs == {"d", "s", "t", "f"}
FormatArgs == {"32", "24", "100", "16"}

DA_reply == <<ESC, "[", "?", "6", "2", ";", "c">>
OK_reply(image_id) == expected_response(image_id).prefix

Behaviours == {"ok_fence", "fence_only", "ok_noise_fence", "ok_x80_fence", "fence_ok",
               "other_id_fence", "ok_only", "silent"}

\* what a terminal of the given behaviour sends back for a query about image_id
Reply(behaviour, image_id) ==
    CASE behaviour = "ok_fence" -> OK_reply(image_id) \o DA_reply
      [] behaviour = "fence_only" -> DA_reply
      [] behaviour = "ok_noise_fence" -> OK_reply(image_id) \o <<"~", "x80">> \o DA_reply
      [] behaviour = "ok_x80_fence" ->
            APC_open \o <<"i", "=">> \o Dec(image_id) \o <<";", "O", "x80", "K">>
            \o APC_close \o DA_reply
      [] behaviour = "fence_ok" -> DA_reply \o OK_reply(image_id)
      [] behaviour = "other_id_fence" -> OK_reply(image_id + 1) \o DA_reply
      [] behaviour = "ok_only" -> OK_reply(image_id)
      [] behaviour = "silent" -> <<>>

Fds == {0, 1, 2}
IsattyChoices ==
    {[f \in Fds |-> TRUE], [f \in Fds |-> FALSE], [f \in Fds |-> f = 2], [f \in Fds |-> f # 1]}
LocalFlags == {"ICANON", "ECHO", "ISIG"}

NoArgs == [medium |-> "", format |-> "", code |-> <<>>, image_id |-> 0]
NoHist == [pre |-> {}, received |-> <<>>, exit |-> "none", faults |-> {},
           slow |-> FALSE, modesets |-> 0, created |-> FALSE]

\* a query a caller of _do_query may send: the protocol's direct-medium query
sample_query_code(image_id) ==
    APC_open \o <<"i", "=">> \o Dec(image_id)
    \o <<",", "s", "=", "1", ",", "v", "=", "1", ",", "a", "=", "q", ",", "t", "=", "d",
         ",", "f", "=", "2", "4", ";", "A", "A", "A", "A">> \o APC_close

BoolStr(b) == IF b THEN "True" ELSE "False"

-----------------------------------------------------------------------------
(* query.py: KGPQuery._do_query, lines 15-65 *)

\* query.py 22 and 60: which exceptions the two handlers of _do_query catch
catches_no_terminal(exc) == exc = "NoInteractiveTerminalError"
do_query_catches(exc) == TRUE

\* a handler for the medium's own error only: except KGPMediumCreationError
qtms_catches_creation_error_only(exc) == exc = "KGPMediumCreationError"

\* query.py 102: except Exception in query_transmission_medium_support
qtms_catches(exc) == TRUE

\* _do_query hands value or exception exc to its caller: the caller of a direct
\* call, or query_transmission_medium_support at line 101, whose handler
\* (102-104) turns a caught exception into False
DQ_Exit(value, exc) ==
    IF qentry = "do_query"
    THEN /\ qpc' = "returned"
         /\ qresult' = value
         /\ qraised' = exc
    ELSE /\ qpc' = "qtms_finally"
         /\ qresult' = IF exc = "none" THEN value
                       ELSE IF qtms_catches(exc) THEN "False" ELSE "none"
         /\ qraised' = IF exc = "none" \/ qtms_catches(exc) THEN "none" ELSE exc

\* an exception inside the try of _do_query: logged at 60-61, then the finally
\* block, then return False (line 65)
DQ_Except(exc, fault) ==
    /\ qpc' = "dq_finally"
    /\ qresult' = IF do_query_catches(exc) THEN "False" ELSE "none"
    /\ qraised' = IF do_query_catches(exc) THEN "none" ELSE exc
    /\ hist' = [hist EXCEPT !.exit = "error", !.faults = @ \cup {fault}]

\* a direct call _do_query(code, expected_response, fence_response)
Call_do_query ==
    /\ qpc = "idle"
    /\ \E i \in ProbeIds :
        qargs' = [medium |-> "", format |-> "", image_id |-> i,
                  code |-> sample_query_code(i) \o fence_code]
    /\ qentry' = "do_query"
    /\ qpc' = "dq_atty"
    /\ hist' = [NoHist EXCEPT !.pre = tty.lflag]
    /\ UNCHANGED <<kgp_medium, fd, old_settings, response, success, qresult, qraised,
                   report, stdout, tty, segments, files, evars, mvars, tvars, uvars>>

\* lines 20-24: fd = atty_fd()
DoQuery_atty_fd ==
    /\ qpc = "dq_atty"
    /\ LET f == atty_fd(tty.isatty)
       IN  IF f = -1
           THEN /\ IF catches_no_terminal("NoInteractiveTerminalError")
                   THEN DQ_Exit("False", "none")
                   ELSE DQ_Exit("none", "NoInteractiveTerminalError")
                /\ UNCHANGED fd
           ELSE /\ fd' = f
                /\ qpc' = "dq_save"
                /\ UNCHANGED <<qresult, qraised>>
    /\ UNCHANGED <<qentry, qargs, kgp_medium, old_settings, response, success, report,
                   stdout, tty, segments, files, hist, evars, mvars, tvars, uvars>>

\* line 26: old_settings = termios.tcgetattr(fd), outside the try
DoQuery_save ==
    /\ qpc = "dq_save"
    /\ \/ /\ tty.isatty[fd]
          /\ old_settings' = tty.lflag
          /\ response' = <<>>
          /\ qpc' = "dq_raw"
          /\ UNCHANGED <<qresult, qraised, hist>>
       \/ /\ DQ_Exit("none", "termios.error")
          /\ hist' = [hist EXCEPT !.exit = "error", !.faults = @ \cup {"tcgetattr"}]
          /\ UNCHANGED <<old_settings, response>>
    /\ UNCHANGED <<qentry, qargs, kgp_medium, fd, success, report, stdout, tty,
                   segments, files, evars, mvars, tvars, uvars>>

\* lines 29-33: read the settings again, clear ICANON and ECHO, set them
DoQuery_raw ==
    /\ qpc = "dq_raw"
    /\ \/ /\ tty' = [tty EXCEPT !.lflag = raw_settings(tty.lflag)]
          /\ hist' = [hist EXCEPT !.modesets = @ + 1]
          /\ qpc' = "dq_write"
          /\ UNCHANGED <<qresult, qraised>>
       \/ /\ DQ_Except("termios.error", "tcsetattr")
          /\ UNCHANGED tty
    /\ UNCHANGED <<qentry, qargs, kgp_medium, fd, old_settings, response, success, report,
                   stdout, segments, files, evars, mvars, tvars, uvars>>

\* lines 35-38: write the query and flush; the terminal answers what reaches it,
\* which is what is written to a standard output that is the terminal
DoQuery_write ==
    /\ qpc = "dq_write"
    /\ \/ /\ stdout' = Append(stdout, qargs.code)
          /\ tty' = [tty EXCEPT !.input =
                        IF tty.isatty[1] THEN Reply(tty.behaviour, qargs.image_id)
                        ELSE <<>>]
          /\ success' = FALSE
          /\ qpc' = "dq_select"
          /\ UNCHANGED <<qresult, qraised, hist>>
       \/ /\ DQ_Except("OSError", "write")
          /\ UNCHANGED <<stdout, tty, success>>
    /\ UNCHANGED <<qentry, qargs, kgp_medium, fd, old_settings, response, report,
                   segments, files, evars, mvars, tvars, uvars>>

\* a timeout that always reports False, whatever was matched before it
timeout_result_negative(succ) == "False"

\* lines 38, 42-43, 59: the break on a timeout leaves the loop with the value
\* success has at that moment, and line 59 returns it
timeout_result(succ) == BoolStr(succ)

\* lines 41-43: select([fd], [], [], timeout); no descriptor ready ends the loop.
\* The timeout (17-18: 1 s under SSH_TTY, else 0.1 s) is not measured: the
\* terminal may be late with any byte.
DoQuery_select ==
    /\ qpc = "dq_select"
    /\ \/ /\ tty.input # <<>>
          /\ qpc' = "dq_read"
          /\ UNCHANGED <<qresult, qraised, hist>>
       \/ /\ qpc' = "dq_finally"
          /\ qresult' = timeout_result(success)
          /\ hist' = [hist EXCEPT !.exit = "timeout", !.slow = tty.input # <<>>]
          /\ UNCHANGED qraised
       \/ DQ_Except("OSError", "select")
    /\ UNCHANGED <<qentry, qargs, kgp_medium, fd, old_settings, response, success, report,
                   stdout, tty, segments, files, evars, mvars, tvars, uvars>>

\* lines 45-55: read one byte; an empty read ends the loop; otherwise decode,
\* append, test the two patterns
DoQuery_read ==
    /\ qpc = "dq_read"
    /\ \/ LET char == Head(tty.input)
              a == after_byte(response, success, char, expected_response(qargs.image_id),
                              fence_response)
          IN  /\ tty' = [tty EXCEPT !.input = Tail(tty.input)]
              /\ response' = a.response
              /\ success' = a.success
              /\ IF a.stop
                 THEN /\ qpc' = "dq_finally"
                      /\ qresult' = BoolStr(a.success)
                      /\ hist' = [hist EXCEPT !.exit = "fence",
                                              !.received = Append(@, char)]
                 ELSE /\ qpc' = "dq_select"
                      /\ hist' = [hist EXCEPT !.received = Append(@, char)]
                      /\ UNCHANGED qresult
              /\ UNCHANGED qraised
       \/ /\ qpc' = "dq_finally"
          /\ qresult' = BoolStr(success)
          /\ hist' = [hist EXCEPT !.exit = "eof"]
          /\ UNCHANGED <<qraised, tty, response, success>>
       \/ /\ DQ_Except("OSError", "read")
          /\ UNCHANGED <<tty, response, success>>
    /\ UNCHANGED <<qentry, qargs, kgp_medium, fd, old_settings, report, stdout,
                   segments, files, evars, mvars, tvars, uvars>>

\* lines 62-63: the finally block, then the return of line 59 or 65
DoQuery_finally ==
    /\ qpc = "dq_finally"
    /\ tty' = [tty EXCEPT !.lflag = finally_settings(old_settings, tty.lflag)]
    /\ DQ_Exit(qresult, qraised)
    /\ hist' = [hist EXCEPT !.modesets = @ + 1]
    /\ UNCHANGED <<qentry, qargs, kgp_medium, fd, old_settings, response, success, report,
                   stdout, segments, files, evars, mvars, tvars, uvars>>

-----------------------------------------------------------------------------
(* query.py: KGPQuery.query_transmission_medium_support, lines 88-107 *)

\* medium.py 36-45: KGPMedium.create builds a medium for these kinds and raises
\* KGPMediumCreationError for every other
medium_kind_supported(medium) == medium \in {"d", "s", "t"}

\* an exception inside the try of query_transmission_medium_support (102-104)
QTMS_Raise(exc, fault) ==
    /\ qpc' = "qtms_finally"
    /\ qresult' = IF qtms_catches(exc) THEN "False" ELSE "none"
    /\ qraised' = IF qtms_catches(exc) THEN "none" ELSE exc
    /\ hist' = [hist EXCEPT !.faults = @ \cup {fault}]

\* a call query_transmission_medium_support(medium, format)
Call_qtms ==
    /\ qpc = "idle"
    /\ \E m \in MediumArgs, f \in FormatArgs :
        qargs' = [medium |-> m, format |-> f, image_id |-> 0, code |-> <<>>]
    /\ qentry' = "qtms"
    /\ qpc' = "qtms_create"
    /\ hist' = [NoHist EXCEPT !.pre = tty.lflag]
    /\ UNCHANGED <<kgp_medium, fd, old_settings, response, success, qresult, qraised,
                   report, stdout, tty, segments, files, evars, mvars, tvars, uvars>>

\* lines 94-96: KGPMedium.create(medium, random_ID(0xFFFFFF), _mock_data(format))
QTMS_create ==
    /\ qpc = "qtms_create"
    /\ \E i \in ProbeIds :
        LET data == _mock_data(qargs.format)
        IN  \/ /\ data = "ValueError"
               /\ QTMS_Raise("ValueError", "format")
               /\ UNCHANGED <<kgp_medium, segments, files>>
            \/ /\ data # "ValueError"
               /\ ~medium_kind_supported(qargs.medium)
               /\ QTMS_Raise("KGPMediumCreationError", "medium")
               /\ UNCHANGED <<kgp_medium, segments, files>>
            \/ /\ data # "ValueError"
               /\ medium_kind_supported(qargs.medium)
               /\ qargs.medium = "d"
               /\ \E p \in DirectPayloads :
                    kgp_medium' = [kind |-> "d", image_id |-> i, payload |-> p]
               /\ qpc' = "qtms_build"
               /\ UNCHANGED <<qresult, qraised, segments, files, hist>>
            \/ /\ data # "ValueError"
               /\ medium_kind_supported(qargs.medium)
               /\ qargs.medium = "s"
               /\ kgp_medium' = [kind |-> "s", image_id |-> i,
                                 shm_name |-> construct_memory_name(i)]
               /\ segments' = shm_init_segments(segments, construct_memory_name(i), data)
               /\ qpc' = "qtms_build"
               /\ hist' = [hist EXCEPT !.created = TRUE]
               /\ UNCHANGED <<qresult, qraised, files>>
            \/ /\ data # "ValueError"
               /\ medium_kind_supported(qargs.medium)
               /\ qargs.medium = "t"
               /\ \E x \in TempSuffixes :
                    /\ \A f \in files : f.path # construct_file_path(x)
                    /\ kgp_medium' = [kind |-> "t", image_id |-> i,
                                      file_path |-> construct_file_path(x)]
                    /\ files' = files \cup {[path |-> construct_file_path(x),
                                             content |-> data]}
               /\ qpc' = "qtms_build"
               /\ hist' = [hist EXCEPT !.created = TRUE]
               /\ UNCHANGED <<qresult, qraised, segments>>
            \/ /\ data # "ValueError"
               /\ qargs.medium \in {"s", "t"}
               /\ QTMS_Raise("OSError", "create")
               /\ UNCHANGED <<kgp_medium, segments, files>>
    /\ UNCHANGED <<qentry, qargs, fd, old_settings, response, success, report, stdout,
                   tty, evars, mvars, tvars, uvars>>

\* lines 97-101: build the query and the patterns, call _do_query.  The f-string
\* calls kgp_medium.medium_options(), a method no medium class defines
\* (KGPMediumMethods): the call raises AttributeError.
QTMS_build ==
    /\ qpc = "qtms_build"
    /\ IF "medium_options" \notin KGPMediumMethods
       THEN /\ QTMS_Raise("AttributeError", "medium_options")
            /\ UNCHANGED qargs
       ELSE /\ qargs' = [qargs EXCEPT
                   !.image_id = kgp_medium.image_id,
                   !.code = APC_open \o <<"s", "=", "1", ",", "v", "=", "1", ",",
                                          "a", "=", "q", ",", "f", "=">>
                            \o <<qargs.format, "medium_options()", ";">>
                            \o construct_payload(kgp_medium) \o APC_close \o fence_code]
            /\ qpc' = "dq_atty"
            /\ UNCHANGED <<qresult, qraised, hist>>
    /\ UNCHANGED <<qentry, kgp_medium, fd, old_settings, response, success, report,
                   stdout, tty, segments, files, evars, mvars, tvars, uvars>>

\* lines 105-107: the finally block, then the return to the caller: the caller
\* of the probe, or query_all, which stores the result (113-128)
QTMS_finally ==
    /\ qpc = "qtms_finally"
    /\ segments' = IF kgp_medium # NoMedium THEN cleanup_segments(kgp_medium, segments)
                   ELSE segments
    /\ files' = IF kgp_medium # NoMedium THEN cleanup_files(kgp_medium, files) ELSE files
    /\ IF qentry = "query_all" /\ qraised = "none"
       THEN /\ report' = Append(report, qresult)
            /\ qresult' = "none"
            /\ qpc' = "qall_next"
       ELSE /\ qpc' = "returned"
            /\ UNCHANGED <<report, qresult>>
    /\ UNCHANGED <<qentry, qargs, kgp_medium, fd, old_settings, response, success,
                   qraised, stdout, tty, hist, evars, mvars, tvars, uvars>>

-----------------------------------------------------------------------------
(* query.py: KGPQuery.query_all, lines 109-143 *)

\* the probes of query_all in the order it runs them (113-128); the first is
\* query_unicode_placeholder_support
Probes ==
    <<[medium |-> "unicode", format |-> "24"],
      [medium |-> "d", format |-> "32"], [medium |-> "d", format |-> "24"],
      [medium |-> "d", format |-> "100"],
      [medium |-> "s", format |-> "32"], [medium |-> "s", format |-> "24"],
      [medium |-> "s", format |-> "100"],
      [medium |-> "t", format |-> "32"], [medium |-> "t", format |-> "24"],
      [medium |-> "t", format |-> "100"],
      [medium |-> "f", format |-> "32"], [medium |-> "f", format |-> "24"],
      [medium |-> "f", format |-> "100"]>>

Call_query_all ==
    /\ qpc = "idle"
    /\ qentry' = "query_all"
    /\ report' = <<>>
    /\ qpc' = "qall_next"
    /\ hist' = [NoHist EXCEPT !.pre = tty.lflag]
    /\ UNCHANGED <<qargs, kgp_medium, fd, old_settings, response, success, qresult,
                   qraised, stdout, tty, segments, files, evars, mvars, tvars, uvars>>

\* the next probe of query_all, or its return once every probe has run.
\* query_unicode_placeholder_support (83-86) probes with query_support, that is
\* medium "d" and format "24" (79-80), only when KITTY_PID or
\* GHOSTTY_SHELL_FEATURES is set, and is False otherwise.
QAll_next ==
    /\ qpc = "qall_next"
    /\ LET k == Len(report) + 1
       IN  \/ /\ k <= Len(Probes)
              /\ Probes[k].medium = "unicode"
              /\ ~tty.kitty
              /\ report' = Append(report, "False")
              /\ UNCHANGED <<qpc, qargs, kgp_medium, qresult>>
           \/ /\ k <= Len(Probes)
              /\ Probes[k].medium = "unicode" => tty.kitty
              /\ qargs' = [medium |-> IF Probes[k].medium = "unicode" THEN "d"
                                      ELSE Probes[k].medium,
                           format |-> Probes[k].format, image_id |-> 0, code |-> <<>>]
              /\ kgp_medium' = NoMedium
              /\ qpc' = "qtms_create"
              /\ UNCHANGED <<report, qresult>>
           \/ /\ k > Len(Probes)
              /\ qpc' = "returned"
              /\ qresult' = "report"
              /\ UNCHANGED <<report, qargs, kgp_medium>>
    /\ UNCHANGED <<qentry, fd, old_settings, response, success, qraised, stdout, tty,
                   segments, files, hist, evars, mvars, tvars, uvars>>

-----------------------------------------------------------------------------
(* medium.py: the life of a shared-memory or temp-file medium, line by line, *)
(* with other callers and another process acting between the lines.          *)
(* A segment here carries the identity the system gave it (ino) and whether  *)
(* its name is still linked; an unlinked segment lives on while mapped.      *)

MaxDataLen == 2
MaxRacerSteps == 2
MaxCleanups == 2

\* for _ in range(2), medium.py 80
Attempts == 2

\* the callers that construct a medium: two transfers, in one process or in two
Mids == {1, 2}

\* the image ids a caller transfers: caller 1 the smallest, caller 2 the same
\* one or another
IdsOf(m) ==
    IF m = 1 THEN {i \in ImageIds : \A j \in ImageIds : i <= j} ELSE ImageIds

\* the bytes caller m transfers: its own byte value, so that contents tell writers apart
DataOf(m) == {[i \in 1..n |-> m] : n \in 1..MaxDataLen}

\* what a new segment holds before anything is written to it
ZeroFill(n) == [i \in 1..n |-> 0]

NoObject ==
    [pc |-> "new", kind |-> "None", image_id |-> 0, data |-> <<>>, shm_name |-> <<>>,
     file_path |-> <<>>, shm |-> 0, attempts |-> 0, raised |-> "none", cleanups |-> 0,
     pre_ino |-> 0, pre_size |-> 0, raced |-> FALSE, fault |-> FALSE, readback |-> <<>>]

\* positions inside KGPMediumSharedMemory.__init__
Creating == {"try_create", "write_new", "open_existing", "unlink_stale", "write_existing"}

\* the segment a name is linked to, if any
Linked(segs, name) == {g \in SegmentNamed(segs, name) : g.linked}

\* object x has segment ino mapped: from the successful open or create until close
Holds(x, ino) ==
    /\ x.kind = "s"
    /\ x.shm = ino
    /\ \/ x.pc \in {"write_new", "unlink_stale", "write_existing"}
       \/ x.pc = "done" /\ x.cleanups = 0

\* the system frees a segment once it is neither linked nor mapped
Reclaim(segs, md) ==
    {g \in segs : g.linked \/ \E k \in Mids : Holds(md[k], g.ino)}

\* shm_unlink(name): whatever segment the name is linked to now loses the name
Unlink(segs, name) ==
    {IF g.linked /\ g.name = name THEN [g EXCEPT !.linked = FALSE] ELSE g : g \in segs}

\* buf[:data_len] = data through a mapping of segment ino
WriteTo(segs, ino, data) ==
    {IF g.ino = ino THEN [g EXCEPT !.content = Overwrite(g.content, data)] ELSE g : g \in segs}

\* the first n bytes read through a mapping of segment ino
ReadFrom(segs, ino, n) ==
    LET g == CHOOSE x \in segs : x.ino = ino IN Slice(g.content, 0, n)

\* history: every other caller that is inside __init__ has seen the names or
\* the contents change under it
Touch(md, actor) ==
    [k \in Mids |-> IF k # actor /\ md[k].pc \in Creating
                    THEN [md[k] EXCEPT !.raced = TRUE] ELSE md[k]]

\* a loop that tries a third time
loop_next_third_attempt(x) ==
    IF x.attempts < Attempts + 1
    THEN [x EXCEPT !.pc = "try_create"]
    ELSE [x EXCEPT !.pc = "failed", !.raised = "KGPMediumCreationError"]

\* medium.py 80, 91, 99, 110-111: continue goes to the next of the two rounds,
\* and the else of the for raises once both are used
loop_next(x) ==
    IF x.attempts < Attempts
    THEN [x EXCEPT !.pc = "try_create"]
    ELSE [x EXCEPT !.pc = "failed", !.raised = "KGPMediumCreationError"]

\* the callers are numbered in the order in which they begin
Begun(m) == IF m = 1 THEN TRUE ELSE media[m - 1].pc # "new"

\* the segment names the callers have asked for so far
UsedNames == {media[k].shm_name : k \in {j \in Mids : media[j].kind = "s"}}

\* lines 75-79: KGPMediumSharedMemory(image_id, data) is entered
Shm_call(m) ==
    /\ media[m].pc = "new"
    /\ Begun(m)
    /\ \E id \in IdsOf(m), d \in DataOf(m) :
          LET name == construct_memory_name(id)
              there == Linked(segments, name)
              g == CHOOSE x \in there : TRUE
          IN  media' = [media EXCEPT ![m] =
                  [NoObject EXCEPT !.pc = "try_create", !.kind = "s", !.image_id = id,
                                   !.data = d, !.shm_name = name,
                                   !.pre_ino = IF there = {} THEN 0 ELSE g.ino,
                                   !.pre_size = IF there = {} THEN 0 ELSE g.size]]
    /\ UNCHANGED <<racer, inos, segments, files, stdout, tty, hist, evars, qvars, tvars, uvars>>

\* line 82 (and 83-84: buf of a mapped segment is never None): one round's
\* SharedMemory(name, create=True, size=data_len). The name is free: the segment
\* is made, zero-filled. The name is taken: FileExistsError. The system has no
\* memory left for it: OSError, which nothing in __init__ catches.
Shm_try_create(m) ==
    LET x == media[m]
        y == [x EXCEPT !.attempts = x.attempts + 1]
    IN  /\ x.pc = "try_create"
        /\ \/ /\ Linked(segments, x.shm_name) = {}
              /\ segments' = segments \cup
                    {[ino |-> inos, name |-> x.shm_name, size |-> Len(x.data),
                      content |-> ZeroFill(Len(x.data)), linked |-> TRUE]}
              /\ inos' = inos + 1
              /\ media' = Touch([media EXCEPT ![m] = [y EXCEPT !.pc = "write_new", !.shm = inos]], m)
           \/ /\ Linked(segments, x.shm_name) = {}
              /\ media' = [media EXCEPT ![m] =
                              [y EXCEPT !.pc = "failed", !.raised = "OSError", !.fault = TRUE]]
              /\ UNCHANGED <<segments, inos>>
           \/ /\ Linked(segments, x.shm_name) # {}
              /\ media' = [media EXCEPT ![m] = [y EXCEPT !.pc = "open_existing"]]
              /\ UNCHANGED <<segments, inos>>
        /\ UNCHANGED <<racer, files, stdout, tty, hist, evars, qvars, tvars, uvars>>

\* line 85: self.shm.buf[:data_len] = data, into the segment just made
Shm_write_new(m) ==
    LET x == media[m]
        after == WriteTo(segments, x.shm, x.data)
    IN  /\ x.pc = "write_new"
        /\ segments' = after
        /\ media' = Touch([media EXCEPT ![m] =
                        [x EXCEPT !.pc = "done",
                                  !.readback = ReadFrom(after, x.shm, Len(x.data))]], m)
        /\ UNCHANGED <<racer, inos, files, stdout, tty, hist, evars, qvars, tvars, uvars>>

\* a test that never finds the existing segment too small
is_stale_never(size, data_len) == FALSE

\* line 93: existing_shm.size < data_len
is_stale(size, data_len) == size < data_len

\* lines 87-93, 100: after FileExistsError, SharedMemory(name, create=False).
\* The name is gone by now: FileNotFoundError, continue. Otherwise the segment
\* is mapped and its size decides between removing and reusing it.
Shm_open_existing(m) ==
    LET x == media[m]
        there == Linked(segments, x.shm_name)
        g == CHOOSE s \in there : TRUE
    IN  /\ x.pc = "open_existing"
        /\ media' = [media EXCEPT ![m] =
              IF there = {} THEN loop_next(x)
              ELSE IF is_stale(g.size, Len(x.data))
                   THEN [x EXCEPT !.pc = "unlink_stale", !.shm = g.ino]
                   ELSE [x EXCEPT !.pc = "write_existing", !.shm = g.ino]]
        /\ UNCHANGED <<racer, inos, segments, files, stdout, tty, hist, evars, qvars, tvars, uvars>>

\* lines 94-99: existing_shm.close(); existing_shm.unlink(), FileNotFoundError
\* passed over; continue. unlink goes by name: it removes what the name is
\* linked to at this moment.
Shm_unlink_stale(m) ==
    LET x == media[m]
        closed == [media EXCEPT ![m] = loop_next([x EXCEPT !.shm = 0])]
        after == Reclaim(Unlink(segments, x.shm_name), closed)
    IN  /\ x.pc = "unlink_stale"
        /\ segments' = after
        /\ media' = IF Linked(segments, x.shm_name) # {} THEN Touch(closed, m) ELSE closed
        /\ UNCHANGED <<racer, inos, files, stdout, tty, hist, evars, qvars, tvars, uvars>>

\* a reuse that keeps the segment as it was found
Shm_write_existing_without_write(m) ==
    LET x == media[m]
    IN  /\ x.pc = "write_existing"
        /\ media' = [media EXCEPT ![m] =
                        [x EXCEPT !.pc = "done",
                                  !.readback = ReadFrom(segments, x.shm, Len(x.data))]]
        /\ UNCHANGED <<racer, inos, segments, files, stdout, tty, hist, evars, qvars, tvars, uvars>>

\* lines 100-109: self.shm = existing_shm; self.shm.buf[:data_len] = data
Shm_write_existing(m) ==
    LET x == media[m]
        after == WriteTo(segments, x.shm, x.data)
    IN  /\ x.pc = "write_existing"
        /\ segments' = after
        /\ media' = Touch([media EXCEPT ![m] =
                        [x EXCEPT !.pc = "done",
                                  !.readback = ReadFrom(after, x.shm, Len(x.data))]], m)
        /\ UNCHANGED <<racer, inos, files, stdout, tty, hist, evars, qvars, tvars, uvars>>

\* lines 139-143: KGPMediumTempFile(image_id, data): mkstemp makes a file under
\* a path no file has (its random suffix is taken not to repeat one handed out
\* before), the data is written to it; or the filesystem refuses (OSError, not
\* caught in __init__)
Tmp_create(m) ==
    /\ media[m].pc = "new"
    /\ Begun(m)
    /\ \E id \in IdsOf(m), d \in DataOf(m) :
          \/ \E suffix \in TempSuffixes :
                LET path == construct_file_path(suffix)
                IN  /\ \A f \in files : f.path # path
                    /\ \A k \in Mids : media[k].file_path # path
                    /\ files' = files \cup {[path |-> path, content |-> d]}
                    /\ media' = [media EXCEPT ![m] =
                          [NoObject EXCEPT !.pc = "done", !.kind = "t", !.image_id = id,
                                           !.data = d, !.file_path = path, !.readback = d]]
          \/ /\ media' = [media EXCEPT ![m] =
                   [NoObject EXCEPT !.pc = "failed", !.kind = "t", !.image_id = id,
                                    !.data = d, !.raised = "OSError", !.fault = TRUE]]
             /\ UNCHANGED files
    /\ UNCHANGED <<racer, inos, segments, stdout, tty, hist, evars, qvars, tvars, uvars>>

\* a cleanup that lets the error of a missing resource out
cleanup_error_not_swallowed(present) == IF present THEN "none" ELSE "FileNotFoundError"

\* lines 117-121 and 146-149: try ... except Exception: pass; nothing leaves cleanup
cleanup_error(present) == "none"

\* KGPMediumSharedMemory.cleanup, lines 115-121: close the mapping, unlink the
\* name. KGPMediumTempFile.cleanup, lines 145-149: os.remove(file_path).
\* A caller may run it more than once.
Cleanup(m) ==
    LET x == media[m]
        present == IF x.kind = "s" THEN Linked(segments, x.shm_name) # {}
                   ELSE \E f \in files : f.path = x.file_path
        closed == [media EXCEPT ![m] =
                      [x EXCEPT !.cleanups = x.cleanups + 1, !.raised = cleanup_error(present)]]
    IN  /\ x.pc = "done"
        /\ x.cleanups < MaxCleanups
        /\ segments' = IF x.kind = "s" THEN Reclaim(Unlink(segments, x.shm_name), closed)
                       ELSE segments
        /\ files' = IF x.kind = "t" THEN {f \in files : f.path # x.file_path} ELSE files
        /\ media' = IF x.kind = "s" /\ present THEN Touch(closed, m) ELSE closed
        /\ UNCHANGED <<racer, inos, stdout, tty, hist, evars, qvars, tvars, uvars>>

\* another process makes a segment under a name a caller has asked for
Racer_create ==
    /\ racer < MaxRacerSteps
    /\ \E name \in UsedNames, n \in 1..MaxDataLen :
          /\ Linked(segments, name) = {}
          /\ segments' = segments \cup
                {[ino |-> inos, name |-> name, size |-> n,
                  content |-> [i \in 1..n |-> 9], linked |-> TRUE]}
    /\ inos' = inos + 1
    /\ racer' = racer + 1
    /\ media' = Touch(media, 0)
    /\ UNCHANGED <<files, stdout, tty, hist, evars, qvars, tvars, uvars>>

\* another process removes a segment by its name, or a temp file by its path
Racer_remove ==
    /\ racer < MaxRacerSteps
    /\ \/ \E name \in UsedNames :
             /\ Linked(segments, name) # {}
             /\ segments' = Reclaim(Unlink(segments, name), media)
             /\ UNCHANGED files
       \/ \E f \in files :
             /\ files' = files \ {f}
             /\ UNCHANGED segments
    /\ racer' = racer + 1
    /\ media' = Touch(media, 0)
    /\ UNCHANGED <<inos, stdout, tty, hist, evars, qvars, tvars, uvars>>

-----------------------------------------------------------------------------
(* One image transfer: encoder.py 25-30, 56-75, 113-126 and __main__.py 20-45 *)
(* main runs it with the default chunk size and a medium name the command     *)
(* line accepted; a program using the encoder as a library passes what it     *)
(* likes and may call delete_image. The medium is constructed as in the       *)
(* lifecycle above, seen from outside: it is there, or an exception came out. *)

NoOptions == [caller |-> "none", transmission_medium |-> "", image_id |-> 0, data |-> <<>>]
NoLog == [configured |-> "none", retries |-> 0]

Callers == {"main", "library"}

\* the medium names a caller can pass: main's were validated by KGPOptions
\* (cli_options.py 81-85), a library caller's were not
MediumNames(caller) == IF caller = "main" THEN {"d", "s", "t"} ELSE MediumArgs

\* the chunk sizes a caller passes to construct_KGP: main passes none (__main__.py 29)
ChunkArgs(caller) == IF caller = "main" THEN {DefaultChunkSize} ELSE {-1, 0, 1, DefaultChunkSize}

\* what KGPMedium.create can raise for a medium name: the creation error for an
\* unknown name (medium.py 45) and for a shared-memory name lost twice to
\* another process (111); OSError when the system has no memory for the segment
\* or the filesystem refuses the temp file (82, 137, 141)
CreateFailures(medium) ==
    CASE ~medium_kind_supported(medium) -> {"KGPMediumCreationError"}
      [] medium = "s" -> {"KGPMediumCreationError", "OSError"}
      [] medium = "t" -> {"OSError"}
      [] OTHER -> {}

\* encoder.py 69: except KGPMediumCreationError
_init_medium_catches(exc) == exc = "KGPMediumCreationError"

\* the encoder object __init__ leaves behind (encoder.py 25-30), one cell large
TransferEncoder(o, m) ==
    [image_id |-> o.image_id, transfer_png |-> FALSE, mode |-> "RGB",
     display_cols |-> 1, display_rows |-> 1,
     width |-> CellWidth, height |-> CellHeight, medium_mgr |-> m]

\* encoder.py 126: the sequence delete_image returns
delete_image(e) ==
    APC_open \o <<"a", "=", "d", ",", "d", "=", "i", ",", "i", "=">>
    \o Dec(e.image_id) \o APC_close

\* __main__.py 13, 20-28: the options are parsed, the encoder is to be constructed
T_start ==
    /\ tpc = "idle"
    /\ \E c \in Callers :
         \E n \in MediumNames(c), i \in ImageIds, d \in DataOf(1) :
            kgp_options' = [caller |-> c, transmission_medium |-> n, image_id |-> i, data |-> d]
    /\ tpc' = "init_medium"
    /\ UNCHANGED <<tlog, evars, qvars, envvars, mvars, uvars>>

\* encoder.py 66-70: KGPMedium.create(image_id, data, options.transmission_medium);
\* the creation error is caught and leads to the retry, anything else leaves __init__
T_init_medium ==
    LET o == kgp_options
        name == construct_memory_name(o.image_id)
    IN  /\ tpc = "init_medium"
        /\ \/ /\ o.transmission_medium = "d"
              /\ \E p \in DirectPayloads :
                    enc' = TransferEncoder(o, [kind |-> "d", image_id |-> o.image_id, payload |-> p])
              /\ tpc' = "constructed"
              /\ tlog' = [tlog EXCEPT !.configured = "ok"]
              /\ UNCHANGED <<eraised, segments, files>>
           \/ /\ o.transmission_medium = "s"
              /\ enc' = TransferEncoder(o, [kind |-> "s", image_id |-> o.image_id, shm_name |-> name])
              /\ segments' = shm_init_segments(segments, name, o.data)
              /\ tpc' = "constructed"
              /\ tlog' = [tlog EXCEPT !.configured = "ok"]
              /\ UNCHANGED <<eraised, files>>
           \/ /\ o.transmission_medium = "t"
              /\ \E x \in TempSuffixes :
                    /\ \A f \in files : f.path # construct_file_path(x)
                    /\ enc' = TransferEncoder(o, [kind |-> "t", image_id |-> o.image_id,
                                                  file_path |-> construct_file_path(x)])
                    /\ files' = files \cup {[path |-> construct_file_path(x), content |-> o.data]}
              /\ tpc' = "constructed"
              /\ tlog' = [tlog EXCEPT !.configured = "ok"]
              /\ UNCHANGED <<eraised, segments>>
           \/ \E exc \in CreateFailures(o.transmission_medium) :
                 /\ tlog' = [tlog EXCEPT !.configured = exc]
                 /\ tpc' = IF _init_medium_catches(exc) THEN "fallback" ELSE "raised"
                 /\ eraised' = IF _init_medium_catches(exc) THEN eraised ELSE exc
                 /\ UNCHANGED <<enc, segments, files>>
        /\ UNCHANGED <<kgp_options, epc, chunk_size, payload, options_str, sequences,
                       stdout, tty, hist, qvars, mvars, uvars>>

\* encoder.py 71-75: KGPMedium.create(image_id, data, "d"). KGPMediumDirect
\* (medium.py 51-53) raises no creation error, so the RuntimeError of line 75
\* never comes about.
T_fallback ==
    /\ tpc = "fallback"
    /\ \E p \in DirectPayloads :
          enc' = TransferEncoder(kgp_options,
                                 [kind |-> "d", image_id |-> kgp_options.image_id, payload |-> p])
    /\ tlog' = [tlog EXCEPT !.retries = tlog.retries + 1]
    /\ tpc' = "constructed"
    /\ UNCHANGED <<kgp_options, epc, chunk_size, payload, options_str, sequences, eraised,
                   qvars, envvars, mvars, uvars>>

\* __main__.py 29, encoder.py 113-121: sequences = encoder.construct_KGP(chunk_size)
T_construct_KGP ==
    /\ tpc = "constructed"
    /\ \E c \in ChunkArgs(kgp_options.caller) :
          LET r == construct_KGP(enc, c)
          IN  /\ chunk_size' = c
              /\ eraised' = r.raised
              /\ sequences' = r.ret
              /\ tpc' = IF r.raised = "none" THEN "frames" ELSE "raised"
    /\ UNCHANGED <<kgp_options, tlog, epc, enc, payload, options_str, qvars, envvars, mvars, uvars>>

\* __main__.py 31-41: the frames are printed, then the final new line
T_print ==
    /\ tpc = "frames"
    /\ stdout' = stdout \o sequences \o << <<"\n">> >>
    /\ tpc' = "printed"
    /\ UNCHANGED <<kgp_options, tlog, evars, qvars, tty, segments, files, hist, mvars, uvars>>

\* __main__.py 43-45: input() and print(encoder.delete_image()) are comments;
\* main returns
T_main_returns ==
    /\ tpc = "printed"
    /\ kgp_options.caller = "main"
    /\ tpc' = "done"
    /\ UNCHANGED <<kgp_options, tlog, evars, qvars, envvars, mvars, uvars>>

\* encoder.py 123-126: a library caller ends with print(encoder.delete_image())
T_delete_image ==
    /\ tpc = "printed"
    /\ kgp_options.caller = "library"
    /\ segments' = cleanup_segments(enc.medium_mgr, segments)
    /\ files' = cleanup_files(enc.medium_mgr, files)
    /\ stdout' = stdout \o <<delete_image(enc)>>
    /\ tpc' = "done"
    /\ UNCHANGED <<kgp_options, tlog, evars, qvars, tty, hist, mvars, uvars>>

-----------------------------------------------------------------------------
(* Options and Unicode placeholders: KGPOptions (cli_options.py), the       *)
(* resize that fixes the display grid (utils.py smart_resize, encoder.py    *)
(* _init_size) and KGPEncoderUnicode (unicode.py), as main runs them        *)
(* (__main__.py 13-41) with the direct medium named on the command line.    *)

TableLen == 3           \* entries of the diacritic table kept in the model

\* 0xFFFFFF, cli_options.py 108
MaxImageId == 16777215

Max(a, b) == IF a >= b THEN a ELSE b

\* constants.py is not part of the sources; the three constants below follow
\* the specification's section 4.5 and glossary: one reserved glyph, a fixed
\* ordered table of combining marks (its first entries, TableLen of them
\* kept), and the largest grid side the table can address.
KGP_PLACEHOLDER == "U+10EEEE"

DiacriticTable ==
    <<"U+0305", "U+030D", "U+030E", "U+0310", "U+0312", "U+033D", "U+033E", "U+033F">>

KGP_DIACRITICS == SubSeq(DiacriticTable, 1, TableLen)

KGP_UNICODE_MAX_SIZE == Len(KGP_DIACRITICS)

\* the colour escape with the middle byte not masked: {self.image_id >> 8}
image_id_str_unmasked(image_id) ==
    <<ESC, "[", "3", "8", ";", "2", ";">> \o Dec((image_id \div 65536) % 256)
    \o <<";">> \o Dec(image_id \div 256)
    \o <<";">> \o Dec(image_id % 256) \o <<"m">>

\* unicode.py 22: \033[38;2;{(id >> 16) & 0xFF};{(id >> 8) & 0xFF};{id & 0xFF}m
image_id_str(image_id) ==
    <<ESC, "[", "3", "8", ";", "2", ";">> \o Dec((image_id \div 65536) % 256)
    \o <<";">> \o Dec((image_id \div 256) % 256)
    \o <<";">> \o Dec(image_id % 256) \o <<"m">>

\* unicode.py 33: \033[39m
foreground_reset == <<ESC, "[", "3", "9", "m">>

\* the generator with the glyph loop started at 0: range(0, self.display_cols)
construct_unicode_placeholders_from_zero(e) ==
    IF e.display_rows > Len(KGP_DIACRITICS)
    THEN [raised |-> "IndexError", ret |-> <<>>]
    ELSE [raised |-> "none",
          ret |-> [r \in 1..e.display_rows |->
                     image_id_str(e.image_id)
                     \o <<KGP_PLACEHOLDER, KGP_DIACRITICS[r], KGP_DIACRITICS[1]>>
                     \o [k \in 1..e.display_cols |-> KGP_PLACEHOLDER]
                     \o foreground_reset]]

\* KGPEncoderUnicode.construct_unicode_placeholders, unicode.py 18-36.  Row i
\* (from 0) reads KGP_DIACRITICS[i]; the first i past the table raises
\* IndexError and nothing is returned.  TLA+ sequences count from 1.
construct_unicode_placeholders(e) ==
    IF e.display_rows > Len(KGP_DIACRITICS)
    THEN [raised |-> "IndexError", ret |-> <<>>]
    ELSE [raised |-> "none",
          ret |-> [r \in 1..e.display_rows |->
                     image_id_str(e.image_id)
                     \o <<KGP_PLACEHOLDER, KGP_DIACRITICS[r], KGP_DIACRITICS[1]>>
                     \o [k \in 1..(e.display_cols - 1) |-> KGP_PLACEHOLDER]
                     \o foreground_reset]]

\* KGPEncoderUnicode._gen_options, unicode.py 11-16
_gen_options_unicode(e) == _gen_options(e) \o <<",", "U", "=", "1">>

\* construct_KGP (encoder.py 113-121) on a KGPEncoderUnicode: self._gen_options
\* is the override
construct_KGP_unicode(e, c) ==
    IF c <= 0
    THEN [raised |-> "ValueError", ret |-> <<>>]
    ELSE [raised |-> "none",
          ret |-> _format_KGP(construct_payload(e.medium_mgr), _gen_options_unicode(e), c)]

-----------------------------------------------------------------------------
(* Reading the colour escape back, as a terminal does: the parameters        *)
(* between "ESC[" and "m", separated by ";", each a decimal number           *)

RECURSIVE SplitSemicolon(_)
SplitSemicolon(s) ==
    LET i == FirstIndex(s, ";")
    IN  IF i = 0 THEN <<s>>
        ELSE <<SubSeq(s, 1, i - 1)>> \o SplitSemicolon(SubSeq(s, i + 1, Len(s)))

RECURSIVE ParseDec(_)
ParseDec(d) ==
    IF Len(d) = 0 THEN 0
    ELSE 10 * ParseDec(SubSeq(d, 1, Len(d) - 1)) + (FirstIndex(Digits, d[Len(d)]) - 1)

IsDecimal(d) == Len(d) > 0 /\ \A i \in 1..Len(d) : d[i] \in DigitSet

\* the parameters of a "ESC[...m" escape, <<>> when it is not one
ColorFields(s) ==
    IF Len(s) >= 3 /\ s[1] = ESC /\ s[2] = "[" /\ s[Len(s)] = "m"
    THEN SplitSemicolon(SubSeq(s, 3, Len(s) - 1))
    ELSE <<>>

\* <<R, G, B>> of a true-colour foreground escape 38;2;R;G;B
DecodeColor(s) ==
    LET f == ColorFields(s)
    IN  <<ParseDec(f[3]), ParseDec(f[4]), ParseDec(f[5])>>

IsColorEscape(s) ==
    LET f == ColorFields(s)
    IN  /\ Len(f) = 5
        /\ f[1] = <<"3", "8">>
        /\ f[2] = <<"2">>
        /\ \A k \in 3..5 : IsDecimal(f[k])

-----------------------------------------------------------------------------
(* smart_resize, utils.py 60-179.  image_aspect is the ratio                *)
(* image_width / image_height; int(w / image_aspect) is computed here as    *)
(* (w * image_height) \div image_width and int(h * image_aspect) as         *)
(* (h * image_width) \div image_height, the comparison of two ratios by     *)
(* cross-multiplication.  Returns the size of the resized image.            *)

smart_resize(image, display_cols, display_rows, cell_width, cell_height, max_cols, max_rows) ==
    LET image_width == image.width
        image_height == image.height
        by_width(w) == (w * image_height) \div image_width
        by_height(h) == (h * image_width) \div image_height
        max_width == max_cols * cell_width
        max_height == max_rows * cell_height
        fit ==
            IF max_cols > 0 /\ max_rows > 0
            THEN IF image_width * max_height > max_width * image_height
                 THEN [width |-> Min(image_width, max_width),
                       height |-> by_width(Min(image_width, max_width))]
                 ELSE [width |-> by_height(Min(image_height, max_height)),
                       height |-> Min(image_height, max_height)]
            ELSE IF max_cols > 0
            THEN [width |-> Min(image_width, max_width),
                  height |-> by_width(Min(image_width, max_width))]
            ELSE IF max_rows > 0
            THEN [width |-> by_height(Min(image_height, max_height)),
                  height |-> Min(image_height, max_height)]
            ELSE [width |-> image_width, height |-> image_height]
        resized ==
            IF display_cols > 0 /\ display_rows > 0
            THEN [width |-> display_cols * cell_width, height |-> display_rows * cell_height]
            ELSE IF display_cols > 0
            THEN LET w == display_cols * cell_width
                 IN  [width |-> w,
                      height |-> IF max_rows > 0 /\ by_width(w) > max_height
                                 THEN max_height ELSE by_width(w)]
            ELSE IF display_rows > 0
            THEN LET h == display_rows * cell_height
                 IN  [width |-> IF max_cols > 0 /\ by_height(h) > max_width
                                THEN max_width ELSE by_height(h),
                      height |-> h]
            ELSE IF image_width <= fit.width /\ image_height <= fit.height
                 THEN [width |-> image_width, height |-> image_height]
                 ELSE fit
    IN  [width |-> Max(resized.width, cell_width),
         height |-> Max(resized.height, cell_height)]

-----------------------------------------------------------------------------
(* Inputs of main *)

\* values random.randint may be asked about, inside and outside 0..0xFFFFFF
IdSamples == {-1, 0, MaxImageId, MaxImageId + 1}

\* utils.py 13: random.randint(0, max), any value from 0 to max inclusive
random_ID(max) == {x \in IdSamples : 0 <= x /\ x <= max}

\* the range test with the upper limit one too high: self.image_id > 0x1000000
image_id_rejected_one_past(image_id) == image_id < -1 \/ image_id > MaxImageId + 1

\* cli_options.py 108
image_id_rejected(image_id) == image_id < -1 \/ image_id > MaxImageId

\* --image-id: below the range, the default -1, ids of one, two and three
\* bytes (0xFF, 0x10000, the specification's example 0x1A2B3C), the largest id
\* and the first one past it
CliImageIds == {-2, -1, 255, 65536, 1715004, MaxImageId, MaxImageId + 1}
CliWidths == {-1, 0, 2, TableLen + 1}
CliHeights == {-1, 2, TableLen + 1}
CliMaxCols == {-1, 0, 2}
CliMaxRows == {-1, 0, 2, TableLen + 1}
CliPlaceholder == {-1, 0, 1, 2}

\* images, in whole cells: one cell, a square one, a tall one
Images ==
    {[width |-> c * CellWidth, height |-> r * CellHeight] :
        <<c, r>> \in {<<1, 1>>, <<2, 2>>, <<1, TableLen + 1>>}}

\* what TIOCGWINSZ reports (utils.py 50-57), no field 0
Terminals ==
    {[cols |-> n, rows |-> n, x_pixels |-> n * CellWidth, y_pixels |-> n * CellHeight] :
        n \in {2, TableLen + 1}}

NoCliArgs ==
    [width |-> 0, height |-> 0, max_cols |-> 0, max_rows |-> 0, image_id |-> 0,
     unicode_placeholder |-> 0, image |-> [width |-> 0, height |-> 0],
     terminal |-> [cols |-> 0, rows |-> 0, x_pixels |-> 0, y_pixels |-> 0]]

NoKGPOptions ==
    [display_cols |-> 0, display_rows |-> 0, max_cols |-> 0, max_rows |-> 0,
     unicode_placeholder |-> 0, image_id |-> 0, cell_width |-> 0, cell_height |-> 0]

\* __main__.py 13, cli_options.py 55-64: the parsed arguments are copied into
\* the options object
U_parse ==
    /\ upc = "idle"
    /\ \E w \in CliWidths, h \in CliHeights, mc \in CliMaxCols, mr \in CliMaxRows,
          i \in CliImageIds, u \in CliPlaceholder, img \in Images, term \in Terminals :
         /\ cli_args' = [width |-> w, height |-> h, max_cols |-> mc, max_rows |-> mr,
                         image_id |-> i, unicode_placeholder |-> u,
                         image |-> img, terminal |-> term]
         /\ uoptions' = [display_cols |-> w, display_rows |-> h, max_cols |-> mc,
                         max_rows |-> mr, unicode_placeholder |-> u, image_id |-> i,
                         cell_width |-> 0, cell_height |-> 0]
    /\ upc' = "check_args"
    /\ UNCHANGED <<uenc, placeholders, uraised, evars, qvars, envvars, mvars, tvars>>

\* KGPOptions._check_args, cli_options.py 101-113; ArgParseError ends the
\* program (cli_options.py 91-93)
U_check_args ==
    /\ upc = "check_args"
    /\ IF \/ (uoptions.max_cols > 0 /\ uoptions.max_cols < uoptions.display_cols)
          \/ (uoptions.max_rows > 0 /\ uoptions.max_rows < uoptions.display_rows)
          \/ image_id_rejected(uoptions.image_id)
       THEN /\ upc' = "exit"
            /\ uraised' = "ArgParseError"
            /\ UNCHANGED uoptions
       ELSE /\ upc' = "init_size"
            /\ IF uoptions.image_id = -1
               THEN \E r \in random_ID(MaxImageId) :
                       uoptions' = [uoptions EXCEPT !.image_id = r]
               ELSE UNCHANGED uoptions
            /\ UNCHANGED uraised
    /\ UNCHANGED <<cli_args, uenc, placeholders, evars, qvars, envvars, mvars, tvars>>

\* KGPOptions._init_size, cli_options.py 115-134
U_init_size ==
    /\ upc = "init_size"
    /\ LET size == cli_args.terminal
       IN  uoptions' =
             [uoptions EXCEPT
                !.display_cols = IF @ = 0 THEN -1 ELSE @,
                !.display_rows = IF @ = 0 THEN -1 ELSE @,
                !.cell_height = size.y_pixels \div size.rows,
                !.cell_width = size.x_pixels \div size.cols,
                !.max_cols = IF @ < 0 THEN size.cols ELSE @,
                !.max_rows = IF @ < 0 THEN size.rows ELSE @]
    /\ upc' = "detect"
    /\ UNCHANGED <<cli_args, uenc, placeholders, uraised, evars, qvars, envvars, mvars, tvars>>

\* cli_options.py 143-159: the mode after the four size tests
limited_placeholder(o, mode) ==
    IF mode = 1 /\ (\/ o.display_cols > KGP_UNICODE_MAX_SIZE
                    \/ o.display_rows > KGP_UNICODE_MAX_SIZE
                    \/ o.max_cols > KGP_UNICODE_MAX_SIZE
                    \/ o.max_rows > KGP_UNICODE_MAX_SIZE)
    THEN 0 ELSE mode

\* KGPOptions._detect_unicode_placeholder, cli_options.py 136-161; with -1 the
\* mode is what the terminal's probe answers, either answer being possible
\* here.  _detect_transmission_medium
\* (163-175) changes nothing for a medium named on the command line.
U_detect_unicode_placeholder ==
    /\ upc = "detect"
    /\ IF uoptions.unicode_placeholder = -1
       THEN /\ \E probe \in {0, 1} :
                 uoptions' = [uoptions EXCEPT
                                !.unicode_placeholder = limited_placeholder(uoptions, probe)]
            /\ upc' = "options"
            /\ UNCHANGED uraised
       ELSE IF uoptions.unicode_placeholder \notin {0, 1}
       THEN /\ upc' = "exit"
            /\ uraised' = "ArgParseError"
            /\ UNCHANGED uoptions
       ELSE /\ uoptions' = [uoptions EXCEPT
                              !.unicode_placeholder = limited_placeholder(uoptions, @)]
            /\ upc' = "options"
            /\ UNCHANGED uraised
    /\ UNCHANGED <<cli_args, uenc, placeholders, evars, qvars, envvars, mvars, tvars>>

\* __main__.py 23-25, 28-29: the encoder is constructed (encoder.py 25-30,
\* _init_size 42-54) and construct_KGP makes the frames
U_encoder ==
    /\ upc = "options"
    /\ LET o == uoptions
           resized_image == smart_resize(cli_args.image, o.display_cols, o.display_rows,
                                         o.cell_width, o.cell_height, o.max_cols, o.max_rows)
           e == [image_id |-> o.image_id, transfer_png |-> FALSE, mode |-> "RGB",
                 display_cols |-> resized_image.width \div o.cell_width,
                 display_rows |-> resized_image.height \div o.cell_height,
                 width |-> resized_image.width, height |-> resized_image.height,
                 medium_mgr |-> [kind |-> "d", image_id |-> o.image_id,
                                 payload |-> ExamplePayload]]
       IN  /\ uenc' = e
           /\ sequences' = IF o.unicode_placeholder = 1
                           THEN construct_KGP_unicode(e, DefaultChunkSize).ret
                           ELSE construct_KGP(e, DefaultChunkSize).ret
    /\ upc' = "encoded"
    /\ UNCHANGED <<cli_args, uoptions, placeholders, uraised, epc, enc, chunk_size, payload,
                   options_str, eraised, qvars, envvars, mvars, tvars>>

\* __main__.py 26: placeholders = encoder.construct_unicode_placeholders(),
\* in placeholder mode only; an exception leaves main
U_placeholders ==
    /\ upc = "encoded"
    /\ IF uoptions.unicode_placeholder = 1
       THEN LET r == construct_unicode_placeholders(uenc)
            IN  /\ placeholders' = r.ret
                /\ uraised' = r.raised
                /\ upc' = IF r.raised = "none" THEN "lines" ELSE "crashed"
       ELSE /\ upc' = "lines"
            /\ UNCHANGED <<placeholders, uraised>>
    /\ UNCHANGED <<cli_args, uoptions, uenc, evars, qvars, envvars, mvars, tvars>>

\* the lines as lines 36-38 print them: a newline after each but the last
RECURSIVE JoinLines(_)
JoinLines(ls) ==
    IF Len(ls) = 0 THEN <<>>
    ELSE IF Len(ls) = 1 THEN ls[1]
    ELSE ls[1] \o <<"\n">> \o JoinLines(Tail(ls))

\* __main__.py 31-41: the frames, the placeholder lines, the final newline
U_print ==
    /\ upc = "lines"
    /\ stdout' = stdout \o Concat(sequences) \o JoinLines(placeholders) \o <<"\n">>
    /\ upc' = "done"
    /\ UNCHANGED <<cli_args, uoptions, uenc, placeholders, uraised, evars, qvars, tty,
                   segments, files, hist, mvars, tvars>>

-----------------------------------------------------------------------------
(* Initial states and specifications *)

Ttys ==
    {[isatty |-> a, lflag |-> l, behaviour |-> b, kitty |-> k, input |-> <<>>] :
        a \in IsattyChoices, l \in SUBSET LocalFlags, b \in Behaviours, k \in BOOLEAN}

Init ==
    /\ epc = "idle"
    /\ enc = NoEncoder
    /\ chunk_size = 0
    /\ payload = <<>>
    /\ options_str = <<>>
    /\ sequences = <<>>
    /\ eraised = "none"
    /\ qpc = "idle"
    /\ qentry = "none"
    /\ qargs = NoArgs
    /\ kgp_medium = NoMedium
    /\ fd = -1
    /\ old_settings = NoSettings
    /\ response = <<>>
    /\ success = FALSE
    /\ qresult = "none"
    /\ qraised = "none"
    /\ report = <<>>
    /\ stdout = <<>>
    /\ segments = {}
    /\ files = {}
    /\ hist = NoHist
    /\ media = [m \in Mids |-> NoObject]
    /\ racer = 0
    /\ inos = 1
    /\ tpc = "idle"
    /\ kgp_options = NoOptions
    /\ tlog = NoLog
    /\ upc = "idle"
    /\ cli_args = NoCliArgs
    /\ uoptions = NoKGPOptions
    /\ uenc = NoEncoder
    /\ placeholders = <<>>
    /\ uraised = "none"

EncoderInit ==
    /\ Init
    /\ tty = [isatty |-> [f \in Fds |-> TRUE], lflag |-> LocalFlags,
              behaviour |-> "ok_fence", kitty |-> FALSE, input |-> <<>>]

QueryInit ==
    /\ Init
    /\ tty \in Ttys

EncoderNext ==
    \/ Call_format_KGP
    \/ NewEncoder
    \/ Call_construct_KGP
    \/ PrintSequences

QueryNext ==
    \/ Call_do_query
    \/ DoQuery_atty_fd
    \/ DoQuery_save
    \/ DoQuery_raw
    \/ DoQuery_write
    \/ DoQuery_select
    \/ DoQuery_read
    \/ DoQuery_finally
    \/ Call_qtms
    \/ QTMS_create
    \/ QTMS_build
    \/ QTMS_finally
    \/ Call_query_all
    \/ QAll_next

MediumNext ==
    \/ \E m \in Mids : Shm_call(m)
    \/ \E m \in Mids : Shm_try_create(m)
    \/ \E m \in Mids : Shm_write_new(m)
    \/ \E m \in Mids : Shm_open_existing(m)
    \/ \E m \in Mids : Shm_unlink_stale(m)
    \/ \E m \in Mids : Shm_write_existing(m)
    \/ \E m \in Mids : Tmp_create(m)
    \/ \E m \in Mids : Cleanup(m)
    \/ Racer_create
    \/ Racer_remove

TransferNext ==
    \/ T_start
    \/ T_init_medium
    \/ T_fallback
    \/ T_construct_KGP
    \/ T_print
    \/ T_main_returns
    \/ T_delete_image

SpecEncoder == EncoderInit /\ [][EncoderNext]_vars

SpecQuery == QueryInit /\ [][QueryNext]_vars
SpecMedium == EncoderInit /\ [][MediumNext]_vars
SpecTransfer == EncoderInit /\ [][TransferNext]_vars

UnicodeNext ==
    \/ U_parse
    \/ U_check_args
    \/ U_init_size
    \/ U_detect_unicode_placeholder
    \/ U_encoder
    \/ U_placeholders
    \/ U_print

SpecUnicode == EncoderInit /\ [][UnicodeNext]_vars

-----------------------------------------------------------------------------
(* Properties of the frame encoder, checked under SpecEncoder *)

\* a call of the frame encoder has returned its frames
Encoded == epc \in {"formatted", "returned", "printed"}

Fragments == [k \in 1..Len(sequences) |-> FramePayload(sequences[k])]

\* C1: for every payload and every chunk size > 0 the frames are well-formed
\* envelopes and their payload fragments, read back and concatenated in order,
\* are the payload
C1_RoundTrip ==
    Encoded =>
        /\ \A k \in 1..Len(sequences) : HasEnvelope(sequences[k])
        /\ Concat(Fragments) = payload

\* the payload is an exact multiple of the chunk size and fills two frames
C1_Witness ==
    /\ Encoded
    /\ Len(sequences) = 2
    /\ Len(payload) = 2 * chunk_size
    /\ Concat(Fragments) = payload

\* C2: the last frame is the one terminal frame (m=0, which is also the
\* protocol's reading of a frame without the m key) and every frame before it
\* has m=1
C2_OneTerminalFrameLast ==
    Encoded =>
        /\ Len(sequences) >= 1
        /\ FrameM(sequences[Len(sequences)]) = 0
        /\ \A k \in 1..(Len(sequences) - 1) : FrameM(sequences[k]) = 1
        /\ \A k \in 2..Len(sequences) :
              ControlItems(sequences[k]) \in {{<<"m", "=", "0">>}, {<<"m", "=", "1">>}}

\* three frames, the last one a full chunk
C2_Witness ==
    /\ Encoded
    /\ Len(sequences) = 3
    /\ Len(payload) = 3 * chunk_size
    /\ FrameM(sequences[3]) = 0

\* C3: no frame carries a payload fragment longer than the chunk size
C3_FragmentWithinChunk ==
    Encoded => \A k \in 1..Len(sequences) : Len(FramePayload(sequences[k])) <= chunk_size

\* several frames, of which a following one is exactly one chunk long
C3_Witness ==
    /\ Encoded
    /\ Len(sequences) >= 3
    /\ Len(FramePayload(sequences[2])) = chunk_size

\* C4: a payload that fits carries exactly the options; otherwise the first
\* frame carries the options followed by ",m=1" and every following frame the m
\* key alone
C4_OptionsOnlyInFirstFrame ==
    Encoded =>
        /\ Len(sequences) = 1 <=> Len(payload) <= chunk_size
        /\ Len(sequences) = 1 => FrameControl(sequences[1]) = options_str
        /\ Len(sequences) > 1 =>
              /\ FrameControl(sequences[1]) = options_str \o <<",", "m", "=", "1">>
              /\ \A k \in 2..Len(sequences) :
                    FrameControl(sequences[k]) \in {<<"m", "=", "0">>, <<"m", "=", "1">>}

\* construct_KGP returned several frames for the options of its encoder
C4_Witness ==
    /\ epc = "returned"
    /\ options_str = _gen_options(enc)
    /\ Len(sequences) >= 2
    /\ FrameControl(sequences[2]) = <<"m", "=", "1">>

\* C5: a call of construct_KGP with chunk_size <= 0 raises ValueError, returns
\* no frame, and nothing of it reaches standard output
C5_NonPositiveChunkRejected ==
    (epc \in {"returned", "raised", "printed"} /\ chunk_size <= 0) =>
        /\ epc = "raised"
        /\ eraised = "ValueError"
        /\ sequences = <<>>
        /\ stdout = <<>>

\* construct_KGP(0) has raised
C5_Witness ==
    /\ epc = "raised"
    /\ chunk_size = 0
    /\ eraised = "ValueError"

-----------------------------------------------------------------------------
(* Properties of the capability query engine, checked under SpecQuery *)

\* _do_query is between its switch to the raw mode and its finally block
InRawSection == qpc \in {"dq_write", "dq_select", "dq_read", "dq_finally"}

\* the text decoded from the first k bytes the probe received
RECURSIVE DecodedPrefix(_, _)
DecodedPrefix(bytes, k) ==
    IF k = 0 THEN <<>> ELSE DecodedPrefix(bytes, k - 1) \o decode_ascii(bytes[k])

EnvironmentFaults == {"create", "tcgetattr", "tcsetattr", "write", "select", "read"}

\* C6: outside the section between the switch to the raw mode and the finally
\* block the terminal has the mode it had before the operation began; so it has
\* after every exit of a probe that saved the mode, whether the loop ended by
\* fence, timeout or closed stream, or an error was raised while setting the
\* mode, writing or reading
C6_ModeRestored ==
    (qpc # "idle" /\ ~InRawSection) =>
        /\ tty.lflag = hist.pre
        /\ old_settings # NoSettings => old_settings = hist.pre

\* a probe has returned after a read error in the raw mode, the mode restored
C6_Witness ==
    /\ qentry = "do_query"
    /\ qpc = "returned"
    /\ "read" \in hist.faults
    /\ hist.modesets = 2
    /\ "ICANON" \in hist.pre /\ "ECHO" \in hist.pre
    /\ tty.lflag = hist.pre

\* C7: when the read loop has ended (timeout, closed stream or fence) the probe
\* returns True exactly if the success pattern matched the decoded buffer after
\* one of the received bytes; a reply of the acknowledgement, other bytes and
\* then the fence, received in full, returns True
C7_ResultIsEverMatched ==
    (qentry = "do_query" /\ qpc = "returned" /\ hist.exit \in {"timeout", "eof", "fence"}) =>
        /\ qresult = "True" <=>
              \E k \in 1..Len(hist.received) :
                  Search(expected_response(qargs.image_id), DecodedPrefix(hist.received, k))
        /\ hist.received = Reply("ok_noise_fence", qargs.image_id) => qresult = "True"

\* the acknowledgement, other bytes and the fence were received; the fence ended the loop
C7_Witness ==
    /\ qentry = "do_query"
    /\ qpc = "returned"
    /\ hist.exit = "fence"
    /\ hist.received = Reply("ok_noise_fence", qargs.image_id)
    /\ qresult = "True"

\* C8: a probe of a medium kind the transport supports, on a terminal that
\* answers the query with the acknowledgement for the probed image and the fence,
\* with nothing failing and no byte late, returns True
C8_AcknowledgedProbeIsTrue ==
    (/\ qentry = "qtms"
     /\ qpc = "returned"
     /\ medium_kind_supported(qargs.medium)
     /\ _mock_data(qargs.format) # "ValueError"
     /\ tty.behaviour = "ok_fence"
     /\ \A f \in Fds : tty.isatty[f]
     /\ hist.faults \cap EnvironmentFaults = {}
     /\ ~hist.slow)
    => qresult = "True"

C10_NoTerminalIsUnsupported ==
    (qentry = "do_query" /\ qpc = "returned" /\ \A f \in Fds : ~tty.isatty[f]) =>
        /\ qresult = "False"
        /\ qraised = "none"
        /\ stdout = <<>>
        /\ hist.modesets = 0
        /\ tty.lflag = hist.pre

\* _do_query has returned False without a terminal
C10_Witness ==
    /\ qentry = "do_query"
    /\ qpc = "returned"
    /\ \A f \in Fds : ~tty.isatty[f]
    /\ qresult = "False"
    /\ fd = -1

\* C11, as the specification states it: a probe whose read loop is ended by the
\* timeout returns False
C11_TimeoutIsNegative ==
    (qentry = "do_query" /\ qpc = "returned" /\ hist.exit = "timeout") =>
        qresult = "False"

\* C11: a probe whose read loop is ended by the timeout returns what success
\* holds at that moment: False when no byte at all arrived, or when the bytes
\* that arrived before the timeout never matched the acknowledgement; True when
\* the acknowledgement had arrived and the fence did not follow in time
C11_TimeoutKeepsEarlierMatch ==
    (qentry = "do_query" /\ qpc = "returned" /\ hist.exit = "timeout") =>
        /\ hist.received = <<>> => qresult = "False"
        /\ qresult = "False" <=>
              \A k \in 1..Len(hist.received) :
                  ~Search(expected_response(qargs.image_id), DecodedPrefix(hist.received, k))
        /\ hist.received = OK_reply(qargs.image_id) => qresult = "True"

\* the acknowledgement arrived, the fence did not, and the timeout ended the loop
C11_Witness ==
    /\ qentry = "do_query"
    /\ qpc = "returned"
    /\ hist.exit = "timeout"
    /\ hist.received = OK_reply(qargs.image_id)
    /\ qresult = "True"

-----------------------------------------------------------------------------
(* Properties of the medium lifecycle, checked under SpecMedium *)

\* the construction of the object has ended: it returned or it raised
Ended(x) == x.pc \in {"done", "failed"}

\* a constructed medium whose cleanup has not run
Live(x) == x.pc = "done" /\ x.cleanups = 0

\* C12: a shared-memory medium constructed while the name is linked to a
\* segment at least as large as the data (left by an earlier medium for the same
\* image id, or by anyone), nothing else acting in between, is constructed
\* without error in one round, holds that same segment, and the first len(data)
\* bytes read back from it are the new data
C12_ReuseHoldsNewData ==
    \A m \in Mids :
        LET x == media[m]
        IN  (/\ x.kind = "s" /\ Ended(x) /\ ~x.raced
             /\ x.pre_ino # 0 /\ x.pre_size >= Len(x.data)) =>
                /\ x.pc = "done"
                /\ x.raised = "none"
                /\ x.attempts = 1
                /\ x.shm = x.pre_ino
                /\ x.readback = x.data

\* caller 1 holds a segment of two bytes; caller 2 has constructed a medium for
\* the same image id with one byte, in that segment
C12_Witness ==
    /\ Live(media[1]) /\ media[1].kind = "s" /\ Len(media[1].data) = 2
    /\ media[2].kind = "s" /\ media[2].pc = "done" /\ ~media[2].raced
    /\ media[2].image_id = media[1].image_id
    /\ Len(media[2].data) = 1
    /\ media[2].pre_ino = media[1].shm
    /\ media[2].shm = media[1].shm
    /\ media[2].readback = media[2].data

\* C13: a shared-memory medium constructed while the name is linked to a
\* segment smaller than the data, nothing else acting in between and memory
\* available, unlinks that segment and is constructed in the second round: it
\* holds a different segment, of exactly len(data) bytes, whose content read
\* back is the data, and the old segment is linked to the name no more
C13_StaleSegmentReplaced ==
    \A m \in Mids :
        LET x == media[m]
        IN  (/\ x.kind = "s" /\ Ended(x) /\ ~x.raced /\ ~x.fault
             /\ x.pre_ino # 0 /\ x.pre_size < Len(x.data)) =>
                /\ x.pc = "done"
                /\ x.raised = "none"
                /\ x.attempts = 2
                /\ x.shm # x.pre_ino
                /\ x.readback = x.data
                /\ \A g \in segments : g.ino = x.pre_ino => ~g.linked
                /\ x.cleanups = 0 =>
                      \E g \in segments : g.ino = x.shm /\ g.size = Len(x.data)

\* caller 1 left a segment of one byte behind; caller 2 has constructed a medium
\* of two bytes for the same image id in a new segment
C13_Witness ==
    /\ media[1].kind = "s" /\ media[1].pc = "done" /\ Len(media[1].data) = 1
    /\ media[2].kind = "s" /\ Live(media[2]) /\ ~media[2].raced /\ ~media[2].fault
    /\ Len(media[2].data) = 2
    /\ media[2].pre_ino = media[1].shm
    /\ media[2].shm # media[1].shm
    /\ media[2].attempts = 2
    /\ \E g \in segments : g.ino = media[2].shm /\ g.linked /\ g.content = media[2].data

\* a caller inside KGPMediumSharedMemory.__init__ runs its next line
MediumStep(m) ==
    \/ Shm_try_create(m)
    \/ Shm_write_new(m)
    \/ Shm_open_existing(m)
    \/ Shm_unlink_stale(m)
    \/ Shm_write_existing(m)

\* a running interpreter executes the next line of __init__; the other process
\* and the callers' decisions to construct or clean up are under no obligation
SpecMediumFair == SpecMedium /\ \A m \in Mids : WF_vars(MediumStep(m))

\* C14: whatever another caller or process does to the name between the lines,
\* the construction of a shared-memory medium makes at most two exclusive-create
\* attempts and comes to an end; it ends constructed, the first len(data) bytes
\* of the segment it holds being the data at that moment, or, when the system
\* did not run out of memory, with KGPMediumCreationError after both rounds
C14_TwoAttemptsThenEnds ==
    /\ [](\A m \in Mids :
            LET x == media[m]
            IN  x.kind = "s" =>
                  /\ x.attempts <= Attempts
                  /\ x.pc = "done" => x.readback = x.data
                  /\ (x.pc = "failed" /\ ~x.fault) =>
                        /\ x.raised = "KGPMediumCreationError"
                        /\ x.attempts = Attempts)
    /\ \A m \in Mids : (media[m].pc \in Creating) ~> Ended(media[m])

\* a construction has ended with the creation error after two rounds, the name
\* having been taken again between them
C14_Witness ==
    \E m \in Mids :
        /\ media[m].kind = "s"
        /\ media[m].pc = "failed"
        /\ media[m].raised = "KGPMediumCreationError"
        /\ media[m].attempts = 2
        /\ media[m].raced

\* no other process has acted and no construction has overlapped another:
\* the media were constructed one after the other
OneAfterTheOther == racer = 0 /\ \A k \in Mids : ~media[k].raced

\* C15: the segment a live shared-memory medium holds keeps that medium's data
\* in its first len(data) bytes, whatever media are constructed after it
C15_LiveSegmentNotOverwritten ==
    \A m \in Mids :
        LET x == media[m]
        IN  (x.kind = "s" /\ Live(x) /\ OneAfterTheOther) =>
                ReadFrom(segments, x.shm, Len(x.data)) = x.data

\* C16: the resource of a live medium is its own, whatever other media are
\* constructed or cleaned up after it: its segment is still linked to its name
\* and mapped by no other medium, its temp file still exists with its data
C16_ExclusiveOwnership ==
    \A m \in Mids :
        LET x == media[m]
        IN  (Live(x) /\ OneAfterTheOther) =>
                /\ x.kind = "s" =>
                      /\ \E g \in Linked(segments, x.shm_name) : g.ino = x.shm
                      /\ \A k \in Mids \ {m} : ~Holds(media[k], x.shm)
                /\ x.kind = "t" =>
                      [path |-> x.file_path, content |-> x.data] \in files

\* the resource a medium names: is its name linked, does its file exist
Present(x, segs, fs) ==
    IF x.kind = "s" THEN Linked(segs, x.shm_name) # {}
    ELSE \E f \in fs : f.path = x.file_path

\* the names and files as another process sees them
Visible(segs, fs) == <<{g \in segs : g.linked}, fs>>

\* C17: a run of cleanup raises nothing and leaves the medium's name or path
\* absent; run when it is absent already (a second run, or after someone else
\* removed the resource) it changes no name, no segment content and no file
C17_CleanupIdempotent ==
    [][\A m \in Mids :
          (media'[m].cleanups = media[m].cleanups + 1) =>
              /\ media'[m].raised = "none"
              /\ ~Present(media'[m], segments', files')
              /\ ~Present(media[m], segments, files) =>
                    Visible(segments', files') = Visible(segments, files)]_vars

\* cleanup has run twice on a shared-memory medium and twice on a temp-file medium
C17_Witness ==
    /\ \E m \in Mids : media[m].kind = "s" /\ media[m].cleanups = 2 /\ media[m].raised = "none"
    /\ \E m \in Mids : media[m].kind = "t" /\ media[m].cleanups = 2 /\ media[m].raised = "none"

-----------------------------------------------------------------------------
(* Properties of one image transfer, checked under SpecTransfer *)

\* the construction of the encoder has ended: it returned or an exception left it
EncoderConstructionEnded == tpc \in {"constructed", "frames", "printed", "done", "raised"}

\* C18: whenever the creation of the configured medium failed, be it with the
\* creation error, for lack of shared memory or by a filesystem failure, the
\* encoder has retried once with the direct medium and goes on with it
C18_FallbackOnAnyFailure ==
    (EncoderConstructionEnded /\ tlog.configured \notin {"none", "ok"}) =>
        /\ tlog.retries = 1
        /\ eraised \notin {"OSError", "KGPMediumCreationError", "RuntimeError"}
        /\ enc.medium_mgr.kind = "d"

\* C19: a bad chunk size and an unknown medium name are fatal before anything
\* is done: the transfer never gets to its frames with either, and when the
\* ValueError for the chunk size is raised there is no segment, no temp file
\* and nothing written
C19_ConfigurationErrorBeforeIO ==
    /\ tpc \in {"frames", "printed", "done"} =>
          /\ chunk_size > 0
          /\ medium_kind_supported(kgp_options.transmission_medium)
    /\ eraised = "ValueError" =>
          /\ segments = {}
          /\ files = {}
          /\ stdout = <<>>

\* C20: when the transfer flow has finished, no shared-memory segment and no
\* temp file it created is left
C20_ResourcesReleasedAtEnd ==
    tpc = "done" => (segments = {} /\ files = {})

-----------------------------------------------------------------------------
(* Unicode placeholders *)

\* main produced placeholder lines (__main__.py 26 returned)
PlaceholdersMade == upc \in {"lines", "done"} /\ uoptions.unicode_placeholder = 1

\* the escape a line starts with: everything up to the first "m"
LineEscape(line) == SubSeq(line, 1, FirstIndex(line, "m"))

\* C21: for every image id in [0, 0xFFFFFF] the colour escape of every emitted
\* line is a true-colour foreground escape whose three numbers R, G, B lie in
\* [0, 255] and satisfy (R << 16) | (G << 8) | B = image id; for the id
\* 0x1A2B3C they are 0x1A, 0x2B, 0x3C.
C21_ColorRoundTrip ==
    PlaceholdersMade =>
        \A i \in 1..Len(placeholders) :
            LET esc == LineEscape(placeholders[i])
                c == DecodeColor(esc)
            IN  /\ uenc.image_id \in 0..MaxImageId
                /\ IsColorEscape(esc)
                /\ \A k \in 1..3 : c[k] \in 0..255
                /\ c[1] * 65536 + c[2] * 256 + c[3] = uenc.image_id
                /\ (uenc.image_id = 1715004 => c = <<26, 43, 60>>)

C21_Witness ==
    /\ PlaceholdersMade
    /\ Len(placeholders) > 0
    /\ uenc.image_id = 1715004
    /\ DecodeColor(LineEscape(placeholders[1])) = <<26, 43, 60>>

\* number of placeholder glyphs in a line
Glyphs(line) == Cardinality({k \in 1..Len(line) : line[k] = KGP_PLACEHOLDER})

\* C22: for a grid of cols x rows the generator returns exactly rows lines;
\* line i (from 0) is the colour escape, one placeholder glyph carrying the
\* row diacritic of index i and the column diacritic of index 0, then cols - 1
\* bare placeholder glyphs (cols glyphs in all), then the foreground reset.
C22_LineStructure ==
    PlaceholdersMade =>
        /\ Len(placeholders) = uenc.display_rows
        /\ \A i \in 1..Len(placeholders) :
              LET line == placeholders[i]
                  e == FirstIndex(line, "m")
                  n == Len(line)
              IN  /\ IsColorEscape(SubSeq(line, 1, e))
                  /\ n = e + 3 + (uenc.display_cols - 1) + Len(foreground_reset)
                  /\ line[e + 1] = KGP_PLACEHOLDER
                  /\ line[e + 2] = DiacriticTable[(i - 1) + 1]
                  /\ line[e + 3] = DiacriticTable[0 + 1]
                  /\ \A k \in (e + 4)..(n - Len(foreground_reset)) : line[k] = KGP_PLACEHOLDER
                  /\ SubSeq(line, n - Len(foreground_reset) + 1, n) = foreground_reset
                  /\ Glyphs(line) = uenc.display_cols

C22_Witness ==
    /\ PlaceholdersMade
    /\ uenc.display_cols = 2
    /\ Len(placeholders) = 2
    /\ placeholders[2][FirstIndex(placeholders[2], "m") + 2] = DiacriticTable[2]
    /\ Glyphs(placeholders[2]) = 2

\* C23: in placeholder mode no grid reaches the generator with a row or
\* column index past the last index of the diacritic table: the rows are at
\* most the table's length and the generator raises no IndexError.
C23_DiacriticIndexInTable ==
    (upc \in {"encoded", "lines", "crashed", "done"} /\ uoptions.unicode_placeholder = 1) =>
        /\ (uenc.display_rows - 1) <= Len(KGP_DIACRITICS) - 1
        /\ uraised # "IndexError"

-----------------------------------------------------------------------------
(* The image id *)

\* the values of key k among the items of a frame's control data
KeyValues(f, k) ==
    {SubSeq(it, 3, Len(it)) : it \in {x \in ControlItems(f) : Len(x) >= 2 /\ x[1] = k /\ x[2] = "="}}

PastCheckArgs == upc \in {"init_size", "detect", "options", "encoded", "lines", "crashed", "done"}

EncoderBuilt == upc \in {"encoded", "lines", "crashed", "done"}

-----------------------------------------------------------------------------
(* Compression flag *)

\* the transfer has its frames
FramesMade == tpc \in {"frames", "printed", "done"} /\ Len(sequences) > 0

\* C25: the option string of the first frame carries o=z exactly when the
\* medium the encoder actually uses requests compression, and that is exactly
\* the direct (inline) medium; the t key names that same medium.  After a
\* fallback both keys describe the direct medium, not the configured one.
C25_CompressionFlagMatchesMedium ==
    FramesMade =>
        LET items == ControlItems(sequences[1])
            used == enc.medium_mgr
        IN  /\ (<<"o", "=", "z">> \in items) <=> (used.kind = "d")
            /\ KeyValues(sequences[1], "t") = {<<used.kind>>}
            /\ KeyValues(sequences[1], "o") \subseteq {<<"z">>}
            /\ \A k \in 2..Len(sequences) : KeyValues(sequences[k], "o") = {}
            /\ tlog.retries = 1 =>
                  /\ used.kind = "d"
                  /\ <<"t", "=", "d">> \in items
                  /\ <<"o", "=", "z">> \in items
            /\ tlog.retries = 0 => used.kind = kgp_options.transmission_medium

\* frames made after a fallback from shared memory
C25_Witness ==
    /\ FramesMade
    /\ tlog.retries = 1
    /\ kgp_options.transmission_medium = "s"
    /\ <<"o", "=", "z">> \in ControlItems(sequences[1])
    /\ <<"t", "=", "d">> \in ControlItems(sequences[1])

-----------------------------------------------------------------------------
(* The read loop of the probe *)

\* the lines of _do_query, query.py 20-63
DoQueryStep ==
    \/ DoQuery_atty_fd
    \/ DoQuery_save
    \/ DoQuery_raw
    \/ DoQuery_write
    \/ DoQuery_select
    \/ DoQuery_read
    \/ DoQuery_finally

\* a running probe executes its next line: select waits no longer than its
\* timeout and read is called on a descriptor select reported ready
SpecQueryFair == SpecQuery /\ WF_vars(DoQueryStep)

InReadLoop == qpc \in {"dq_select", "dq_read"}

\* the fence pattern matches the text decoded from the first k received bytes
FenceMatchedAfter(k) == Search(fence_response, DecodedPrefix(hist.received, k))

\* C26: the read loop ends exactly when the wait times out, a read returns
\* nothing or the fence pattern matches (an exception of select or read aside,
\* which leaves the whole try block): while the loop runs none of the three has
\* happened and the fence has not matched, a match of the acknowledgement alone
\* does not end it, the byte that completes the fence is the last byte read, and
\* a probe of a terminal that sends finitely many bytes comes to its return.
C26_ReadLoopEnds ==
    /\ [](/\ InReadLoop =>
               /\ hist.exit = "none"
               /\ response = DecodedPrefix(hist.received, Len(hist.received))
               /\ \A k \in 0..Len(hist.received) : ~FenceMatchedAfter(k)
          /\ hist.exit \in {"none", "timeout", "eof", "fence", "error"}
          /\ hist.exit = "error" => hist.faults # {}
          /\ hist.exit = "fence" =>
               /\ FenceMatchedAfter(Len(hist.received))
               /\ \A k \in 0..(Len(hist.received) - 1) : ~FenceMatchedAfter(k)
          /\ hist.exit \in {"timeout", "eof"} =>
               \A k \in 0..Len(hist.received) : ~FenceMatchedAfter(k)
          /\ hist.exit = "eof" => hist.faults = {})
    /\ [][hist.exit # "none" => (hist'.received = hist.received /\ tty'.input = tty.input)]_vars
    /\ (qentry = "do_query" /\ qpc # "idle") ~> (qpc = "returned")

\* the fence ended the loop and the acknowledgement the terminal sent after it
\* was never read
C26_Witness ==
    /\ qentry = "do_query"
    /\ qpc = "returned"
    /\ hist.exit = "fence"
    /\ hist.received = DA_reply
    /\ tty.input = OK_reply(qargs.image_id)
    /\ qresult = "False"

-----------------------------------------------------------------------------
(* The probe's mock medium *)

\* the resource a medium object stands for is there
MediumResourcePresent(m) ==
    CASE m.kind = "s" -> SegmentNamed(segments, m.shm_name) # {}
      [] m.kind = "t" -> \E f \in files : f.path = m.file_path
      [] OTHER -> FALSE

-----------------------------------------------------------------------------
(* The write into a reused segment *)

\* C28: the write of a construction that reuses an existing segment, whose
\* capacity is at least len(data), changes the first len(data) bytes of that
\* segment to the data and nothing else: the capacity, the bytes from offset
\* len(data) on, the name, and every other segment stay as they were.
C28_ReuseWritesPrefixOnly ==
    [][\A m \in Mids :
          (media[m].pc = "write_existing" /\ media'[m].pc = "done") =>
              LET data == media[m].data
              IN  /\ \A g \in segments :
                        IF g.ino = media[m].shm
                        THEN /\ g.size >= Len(data)
                             /\ \E h \in segments' :
                                   /\ h.ino = g.ino
                                   /\ h.size = g.size
                                   /\ h.name = g.name
                                   /\ h.linked = g.linked
                                   /\ Len(h.content) = Len(g.content)
                                   /\ \A i \in 1..Len(data) : h.content[i] = data[i]
                                   /\ \A i \in (Len(data) + 1)..Len(g.content) :
                                         h.content[i] = g.content[i]
                        ELSE g \in segments'
                  /\ Cardinality(segments') = Cardinality(segments)
                  /\ \E g \in segments : g.ino = media[m].shm]_vars

\* caller 2 wrote its one byte into the two-byte segment caller 1 had filled:
\* the second byte is still caller 1's
C28_Witness ==
    /\ media[2].kind = "s"
    /\ media[2].pc = "done"
    /\ media[2].data = <<2>>
    /\ media[2].pre_size = 2
    /\ \E g \in segments :
          /\ g.ino = media[2].shm
          /\ g.size = 2
          /\ g.content = <<2, 1>>

====
